---------------------------- MODULE Spec2Model ----------------------------
(***************************************************************************)
(* A model of the StockAnalyser backend (aditchawdhary/StockAnalyser):     *)
(* the rate limiter and the fast concurrent fetcher of                     *)
(* stocks/management/commands/fetch_stocks_fast.py, the per-type fetchers  *)
(* (fetch_weekly_stocks.py, fetch_daily_stocks.py,                         *)
(* fetch_intraday_stocks.py), the performance calculator                   *)
(* (stocks/services/performance_calculator.py), the database routing       *)
(* (stocks/db_router.py, stock_backend/settings.py), the endpoints /seed/  *)
(* and /stocks/ (stocks/views.py) and social_login                         *)
(* (stock_backend/views.py), and the bootstrap deploy.py.                  *)
(*                                                                         *)
(* The module holds several specifications, one per component, each over   *)
(* its own group of variables; the variables of the other components stay  *)
(* at their initial values.                                                *)
(***************************************************************************)
EXTENDS Integers, Sequences, FiniteSets, Bags, TLC

VARIABLES
    \* ---- RateLimiter (fetch_stocks_fast.py:20-54)
    clock,            \* time.time(), in whole seconds
    qpm,              \* RateLimiter.qpm
    qps,              \* RateLimiter.qps
    lock,             \* RateLimiter.lock: the caller holding it, or NoCaller
    request_times,    \* RateLimiter.request_times (deque)
    second_requests,  \* RateLimiter.second_requests (deque)
    lpc,              \* each caller's position in acquire()
    lnow,             \* each caller's local variable now
    admitted,         \* history: every time recorded by an admission, in order
    \* ---- the price stores and the fetches that write them
    routed,           \* settings.py: DATABASE_ROUTERS is set (no DATABASE_URL)
    wall,             \* timezone.now(), in minutes
    stocks,           \* Stock / DailyStock / IntradayStock rows, per data type
    prices,           \* committed StockPrice / DailyStockPrice / IntradayStockPrice rows
    apilog,           \* APICallLog rows
    runType,          \* the data type the run's fetches are for
    proc,             \* each running fetch: its arguments, locals and position
    \* ---- the performance calculator
    perf,             \* committed StockPerformance rows
    calc,             \* each running compute_all: its locals and position
    \* ---- one run of an ingestion command
    args,             \* the command and its options
    phase,            \* "pass", "summary", or "aborted" by an escaped exception
    passTasks,        \* the task list of the pass under way
    queue,            \* tasks of the pass not yet started
    running,          \* tasks a worker is executing
    results,          \* what each finished task of the pass returned
    failed_tasks,     \* handle's list failed_tasks
    retry_round,      \* handle's retry_round
    completed,        \* handle's dict completed
    attempted,        \* history: every task started in the run
    hist,             \* history: admissions, vendor calls, each task's last outcome
    \* ---- the HTTP endpoints /seed/ and social_login
    seed,             \* the last /seed/ request, its response, the threads started
    users,            \* auth User rows
    accounts,         \* allauth SocialAccount rows
    login,            \* each social_login request being served
    \* ---- the bars a price fetcher stores from one vendor response
    ingest,           \* the fetcher, the bars still to store, the rows stored
    \* ---- StockRouter
    route,            \* the last query put to the router and its answers
    \* ---- deploy.py
    boot,             \* the bootstrap: its position, its environment, what it did
    \* ---- GET /stocks/ (get_multiple_stocks)
    view              \* the requests served and the last request with its response

limiterVars == <<clock, qpm, qps, lock, request_times, second_requests,
                 lpc, lnow, admitted>>

storeVars == <<routed, runType, wall, stocks, prices, apilog, proc>>

perfVars == <<perf, calc>>

cmdVars == <<args, phase, passTasks, queue, running, results, failed_tasks,
             retry_round, completed, attempted, hist>>

apiVars == <<seed, users, accounts, login>>

\* The variables of the components added after the ingestion commands.
extVars == <<apiVars, ingest, route, boot, view>>

vars == <<limiterVars, storeVars, perfVars, cmdVars, extVars>>

\* What the actions of one component leave alone.
notLimiter == <<storeVars, perfVars, cmdVars, extVars>>
notStore == <<limiterVars, perfVars, cmdVars, extVars>>
notPerf == <<limiterVars, runType, wall, apilog, proc, cmdVars, extVars>>
notCmd == <<limiterVars, storeVars, perfVars, extVars>>
coreVars == <<limiterVars, storeVars, perfVars, cmdVars>>
notApi == <<coreVars, ingest, route, boot, view>>
notIngest == <<coreVars, apiVars, route, boot, view>>
notRoute == <<coreVars, apiVars, ingest, boot, view>>
notBoot == <<coreVars, apiVars, ingest, route, view>>
notView == <<limiterVars, routed, runType, wall, proc, perfVars, cmdVars,
            apiVars, ingest, route, boot>>

(***************************************************************************)
(*                              RateLimiter                                *)
(***************************************************************************)

\* Bounds of the limiter model: the callers, and how many seconds the clock is
\* observed after time 0 (Early) and after the minute window has passed (Late).
NumCallers == 4
Early == 2
Late == 2

\* The two windows of acquire(), in seconds.
MinuteWindow == 60
SecondWindow == 1

\* The instants at which time.time() is read: the first seconds of the run and
\* the seconds around the end of the first minute.
TimePoints == (0..Early) \cup ((MinuteWindow - 1)..(MinuteWindow + Late))
MaxTime == MinuteWindow + Late

Callers == 1..NumCallers
NoCaller == 0

\* `while q and q[0] < now - window: q.popleft()`
PruneNever(q, now, window) == q
RECURSIVE PruneOld(_, _, _)
PruneOld(q, now, window) ==
    IF q # <<>> /\ Head(q) < now - window
    THEN PruneOld(Tail(q), now, window)
    ELSE q

\* `len(self.request_times) < self.qpm and len(self.second_requests) < self.qps`
CanAdmitLoose(rt, sr, m, s) == Len(rt) <= m /\ Len(sr) <= s
CanAdmit(rt, sr, m, s) == Len(rt) < m /\ Len(sr) < s

\* RateLimiter.__init__ with the limits of the run, and callers about to call acquire().
LimiterInit ==
    /\ clock = 0
    /\ qpm \in {2, 3}
    /\ qps \in {1, 2}
    /\ lock = NoCaller
    /\ request_times = <<>>
    /\ second_requests = <<>>
    /\ lpc = [c \in Callers |-> "start"]
    /\ lnow = [c \in Callers |-> 0]
    /\ admitted = <<>>

\* The limiter when no fetch command runs.
LimiterIdle ==
    /\ clock = 0
    /\ qpm = 0
    /\ qps = 0
    /\ lock = NoCaller
    /\ request_times = <<>>
    /\ second_requests = <<>>
    /\ lpc = [c \in Callers |-> "done"]
    /\ lnow = [c \in Callers |-> 0]
    /\ admitted = <<>>

\* `with self.lock: now = time.time()`
Enter(c) ==
    /\ lpc[c] = "start"
    /\ lock = NoCaller
    /\ lock' = c
    /\ lnow' = [lnow EXCEPT ![c] = clock]
    /\ lpc' = [lpc EXCEPT ![c] = "locked"]
    /\ UNCHANGED <<clock, qpm, qps, request_times, second_requests, admitted>>
    /\ UNCHANGED notLimiter

\* The body of the critical section: prune both deques, check, record or give up;
\* leaving the `with` block releases the lock.
Critical(c) ==
    /\ lpc[c] = "locked"
    /\ lock = c
    /\ LET rt == PruneOld(request_times, lnow[c], MinuteWindow)
           sr == PruneOld(second_requests, lnow[c], SecondWindow)
       IN IF CanAdmit(rt, sr, qpm, qps)
          THEN /\ request_times' = Append(rt, lnow[c])
               /\ second_requests' = Append(sr, lnow[c])
               /\ admitted' = Append(admitted, lnow[c])
               /\ lpc' = [lpc EXCEPT ![c] = "done"]
          ELSE /\ request_times' = rt
               /\ second_requests' = sr
               /\ admitted' = admitted
               /\ lpc' = [lpc EXCEPT ![c] = "sleep"]
    /\ lock' = NoCaller
    /\ lnow' = [lnow EXCEPT ![c] = 0]
    /\ UNCHANGED <<clock, qpm, qps>>
    /\ UNCHANGED notLimiter

\* `time.sleep(0.1)` is over: the caller goes round the loop.
Wake(c) ==
    /\ lpc[c] = "sleep"
    /\ lpc' = [lpc EXCEPT ![c] = "start"]
    /\ UNCHANGED <<clock, qpm, qps, lock, request_times, second_requests,
                   lnow, admitted>>
    /\ UNCHANGED notLimiter

\* Time passes: the clock moves to a later instant.
Tick ==
    /\ \E t \in TimePoints : t > clock /\ clock' = t
    /\ UNCHANGED <<qpm, qps, lock, request_times, second_requests, lpc, lnow,
                   admitted>>
    /\ UNCHANGED notLimiter

LimiterNext ==
    \/ \E c \in Callers : Enter(c)
    \/ \E c \in Callers : Critical(c)
    \/ \E c \in Callers : Wake(c)
    \/ Tick

\* Time goes on past the instants observed: more than a minute passes while no
\* caller is inside the critical section.  Times are kept relative to the
\* clock, which stays at MaxTime: every recorded time is now older than both
\* windows.
Elapse ==
    /\ clock = MaxTime
    /\ lock = NoCaller
    /\ request_times' = [i \in DOMAIN request_times |-> 0]
    /\ second_requests' = [i \in DOMAIN second_requests |-> 0]
    /\ admitted' = [i \in DOMAIN admitted |-> 0]
    /\ request_times' # request_times
    /\ UNCHANGED <<clock, qpm, qps, lock, lpc, lnow>>
    /\ UNCHANGED notLimiter

LimiterLiveNext ==
    \/ \E c \in Callers : Enter(c)
    \/ \E c \in Callers : Critical(c)
    \/ \E c \in Callers : Wake(c)
    \/ Tick
    \/ Elapse

\* What the scheduling gives: a thread that can take the free lock, is inside
\* the critical section or has slept 0.1 s goes on, and time does not stop.
LimiterFairness ==
    /\ \A c \in Callers : WF_vars(Enter(c))
    /\ \A c \in Callers : WF_vars(Critical(c))
    /\ \A c \in Callers : WF_vars(Wake(c))
    /\ WF_vars(Tick)
    /\ SF_vars(Elapse)

(***************************************************************************)
(*            The price stores and the fetches that write them             *)
(***************************************************************************)

\* Bounds of the store model.
NumProcs == 2      \* fetches that may run at the same time
MaxLog == 2        \* APICallLog rows written in one run
MaxDate == 2       \* dates a vendor series may carry
MaxVal == 2        \* distinct vendor values (versions of the vendor's data)
WallSteps == 2     \* how many times the wall clock is seen to advance

\* timezone.now() is observed every SamplePeriod minutes.
SamplePeriod == 30
MaxWall == SamplePeriod * WallSteps

Procs == 1..NumProcs
Symbols == {"AAPL", "ZZZZ"}
\* The --symbols option of the fetch commands of a run.
Requested == {"AAPL"}
DataTypes == {"weekly", "daily", "intraday"}
\* "fast": fetch_stocks_fast (delete, then bulk_create);
\* "row": fetch_weekly_stocks / fetch_daily_stocks / fetch_intraday_stocks
\* (update_or_create per row).
Paths == {"fast", "row"}
Dates == 1..MaxDate
\* A date string that datetime.strptime rejects.
BadDate == 0
Vals == 1..MaxVal

Bar(d, v) == [date |-> d, val |-> v]

\* The time series of a vendor response: the dates 1..n at one value, or a
\* series whose second key is malformed.
Series ==
    {[i \in 1..n |-> Bar(i, v)] : n \in Dates, v \in Vals}
        \cup {<<Bar(1, 1), Bar(BadDate, 1)>>}

\* What requests.get(...).json() gives: a body with 'Error Message', with 'Note',
\* with 'Information', with none of the expected keys, a time series, or an
\* exception raised by the call (timeout, connection error, invalid JSON).
FailKinds == {"error", "note", "information", "unexpected", "exception"}
Responses ==
    {[kind |-> k, series |-> <<>>] : k \in FailKinds}
        \cup {[kind |-> "ok", series |-> s] : s \in Series}

\* StockRouter.db_for_read / db_for_write.
daily_models == {"dailystock", "dailystockprice"}
intraday_models == {"intradaystock", "intradaystockprice"}
db_for_write(app_label, model_name) ==
    IF app_label = "stocks"
    THEN IF model_name \in daily_models THEN "daily"
         ELSE IF model_name \in intraday_models THEN "intraday"
         ELSE "adjusted"
    ELSE "default"

\* The connection a price model's queries run on: the alias given with
\* .using(...), else the router's answer, else (no router) 'default'.
PriceAlias(r, dt) ==
    IF dt = "daily" THEN "daily"
    ELSE IF dt = "intraday" THEN "intraday"
    ELSE IF r THEN db_for_write("stocks", "stockprice")
    ELSE "default"

\* `with transaction.atomic():` names no database: it opens a transaction on
\* the connection 'default' and on no other.
AtomicAlias == "default"

\* Whether the statements of a fast fetch on data type dt run inside the
\* transaction its `with transaction.atomic()` opened.
Covered(dt) == PriceAlias(routed, dt) = AtomicAlias

\* `time_diff < timedelta(...)`: the freshness windows, in minutes.
WeeklyWindow == 60
FastIntradayWindow == 30
RowIntradayWindow == 15
FreshnessWindow(path, dt) ==
    IF dt = "intraday"
    THEN IF path = "fast" THEN FastIntradayWindow ELSE RowIntradayWindow
    ELSE WeeklyWindow

\* `time_diff = timezone.now() - stock.last_updated; time_diff < window`
FreshNever(now, last_updated, window) == FALSE
Fresh(now, last_updated, window) == now - last_updated < window

\* `if not force and not created: ... return skipped`
ShouldSkip(force, created, now, last_updated, window) ==
    ~force /\ ~created /\ Fresh(now, last_updated, window)

\* Which fetchers write APICallLog rows: fetch_weekly of the fast fetcher and
\* fetch_weekly_stocks; the daily and intraday fetchers write none.
Logs(path, dt) == dt = "weekly"

\* An instrument row; refreshed is history: a fetch of the symbol has reached
\* its stock.save().
NoStock == [exists |-> FALSE, last_updated |-> 0, refreshed |-> FALSE]
Row(sym, bar) == [sym |-> sym, date |-> bar.date, val |-> bar.val]
Key(r) == <<r.sym, r.date>>
Keys(rows) == {Key(r) : r \in rows}
\* The rows of a table are a bag: a table without a constraint can hold the
\* same row twice.
RowsOf(dt, sym) == {r \in BagToSet(prices[dt]) : r.sym = sym}
Without(table, rows) == [r \in BagToSet(table) \ rows |-> table[r]]
\* What a reader of the store sees for a symbol: its committed (date, value) pairs.
Content(dt, sym) == {<<r.date, r.val>> : r \in RowsOf(dt, sym)}
BarsOf(data) == {<<data[i].date, data[i].val>> : i \in 1..Len(data)}
Malformed(data) == \E i \in 1..Len(data) : data[i].date = BadDate

\* unique_together = ['stock', 'date']: whether the rows `new` may be added to
\* the rows `rows`.
UniqueOKNone(rows, new) == TRUE
UniqueOK(rows, new) ==
    /\ Keys(rows) \cap Keys(new) = {}
    /\ \A a, b \in new : Key(a) = Key(b) => a = b

IdleProc ==
    [pc |-> "idle", path |-> "none", dt |-> "none", sym |-> "none",
     force |-> FALSE, data |-> <<>>, i |-> 0,
     targets |-> {}, txdel |-> {}, txins |-> {},
     repeat |-> FALSE, solo |-> TRUE, before |-> {}]

StoreInit ==
    /\ routed \in BOOLEAN
    /\ runType \in DataTypes
    /\ wall = 0
    /\ stocks = [dt \in DataTypes |-> [s \in Symbols |-> NoStock]]
    /\ prices = [dt \in DataTypes |-> EmptyBag]
    /\ apilog = EmptyBag
    /\ proc = [p \in Procs |-> IdleProc]

\* The stores when no fetch runs.
StoreIdle ==
    /\ routed = FALSE
    /\ runType = "weekly"
    /\ wall = 0
    /\ stocks = [dt \in DataTypes |-> [s \in Symbols |-> NoStock]]
    /\ prices = [dt \in DataTypes |-> EmptyBag]
    /\ apilog = EmptyBag
    /\ proc = [p \in Procs |-> IdleProc]

\* Rows another open transaction has deleted (and so locked) or is inserting.
LockedByOthers(p, dt) ==
    UNION {proc[q].txdel : q \in {x \in Procs \ {p} : proc[x].dt = dt}}
PendingByOthers(p, dt) ==
    UNION {proc[q].txins : q \in {x \in Procs \ {p} : proc[x].dt = dt}}
BlockedKeys(p, dt) == Keys(LockedByOthers(p, dt)) \cup Keys(PendingByOthers(p, dt))

\* A write of q to (dt, sym) became visible: every other fetch of the same
\* symbol that is under way no longer runs alone (and its history of what it
\* found is dropped).
Disturb(q, dt, sym, pr) ==
    [p \in Procs |->
        IF p # q /\ pr[p].pc \notin {"idle", "skip", "called"}
                 /\ pr[p].dt = dt /\ pr[p].sym = sym
        THEN [pr[p] EXCEPT !.solo = FALSE, !.before = {}]
        ELSE pr[p]]

\* The commit of q's delete: a delete that waits for those rows finds them gone.
Release(q, pr) ==
    [p \in Procs |->
        IF p # q /\ pr[p].pc = "del_wait"
        THEN [pr[p] EXCEPT !.targets = @ \ pr[q].txdel]
        ELSE pr[p]]

LogRow(sym, ok) == [symbol |-> sym, success |-> ok]

\* The first part of a fetch of one symbol, in either fetcher and for any data
\* type: get_or_create of the instrument and the freshness check; then either
\* the skip or requests.get.
FetchBegin(p, path, dt, sym, force) ==
    /\ proc[p].pc = "idle"
    /\ dt = runType
    /\ Logs(path, dt) => BagCardinality(apilog) < MaxLog
    /\ LET created == ~stocks[dt][sym].exists
           st == IF created
                 THEN [exists |-> TRUE, last_updated |-> wall, refreshed |-> FALSE]
                 ELSE stocks[dt][sym]
           skip == ShouldSkip(force, created, wall, st.last_updated,
                              FreshnessWindow(path, dt))
       IN /\ stocks' = [stocks EXCEPT ![dt][sym] = st]
          /\ proc' = [proc EXCEPT ![p] =
                        [IdleProc EXCEPT !.path = path, !.dt = dt, !.sym = sym,
                                         !.force = force,
                                         !.pc = IF skip THEN "skip" ELSE "called"]]
    /\ UNCHANGED <<routed, runType, wall, prices, apilog>>
    /\ UNCHANGED notStore

\* `return {'success': True, 'skipped': True}` / `continue`.
FetchSkip(p) ==
    /\ proc[p].pc = "skip"
    /\ proc' = [proc EXCEPT ![p] = IdleProc]
    /\ UNCHANGED <<routed, runType, wall, stocks, prices, apilog>>
    /\ UNCHANGED notStore

\* The vendor's answer arrives and is checked: 'Error Message', 'Note' (and
\* 'Information' in the intraday fetcher), a missing time series, or an
\* exception raised by the call end the fetch; the weekly fetchers log the
\* failure.
FetchResponse(p, resp) ==
    /\ proc[p].pc = "called"
    /\ LET dt == proc[p].dt
           sym == proc[p].sym
       IN IF resp.kind = "ok"
          THEN /\ proc' = [proc EXCEPT ![p].data = resp.series,
                                       ![p].i = 1,
                                       ![p].force = FALSE,
                                       ![p].repeat =
                                            Content(dt, sym) = BarsOf(resp.series),
                                       ![p].pc = IF proc[p].path = "fast"
                                                 THEN "delete" ELSE "upsert"]
               /\ UNCHANGED apilog
          ELSE /\ proc' = [proc EXCEPT ![p] = IdleProc]
               /\ apilog' = IF Logs(proc[p].path, dt)
                            THEN apilog (+) SetToBag({LogRow(sym, FALSE)})
                            ELSE apilog
    /\ UNCHANGED <<routed, runType, wall, stocks, prices>>
    /\ UNCHANGED notStore

\* Fast fetcher: `X.objects.filter(stock=stock).delete()` inside
\* `with transaction.atomic()`.  Outside the transaction's connection the
\* delete commits at once; inside it the rows are locked and the delete waits
\* for rows another transaction has locked.  before is history: what a reader
\* saw for the symbol when the delete was issued.
FastDelete(p) ==
    /\ proc[p].pc = "delete"
    /\ LET dt == proc[p].dt
           sym == proc[p].sym
           targets == RowsOf(dt, sym)
       IN IF ~Covered(dt)
          THEN /\ prices' = [prices EXCEPT ![dt] = Without(@, targets)]
               /\ proc' = Disturb(p, dt, sym,
                                  [proc EXCEPT ![p].pc = "insert",
                                               ![p].before = Content(dt, sym)])
          ELSE /\ prices' = prices
               /\ IF targets \cap LockedByOthers(p, dt) = {}
                  THEN proc' = [proc EXCEPT ![p].pc = "insert",
                                            ![p].txdel = targets,
                                            ![p].before = Content(dt, sym)]
                  ELSE proc' = [proc EXCEPT ![p].pc = "del_wait",
                                            ![p].targets = targets,
                                            ![p].before = Content(dt, sym)]
    /\ UNCHANGED <<routed, runType, wall, stocks, apilog>>
    /\ UNCHANGED notStore

\* The delete goes on once the rows it waited for are released: rows the other
\* transaction deleted are gone, rows it inserted were not in the statement's
\* snapshot.
FastDeleteResume(p) ==
    /\ proc[p].pc = "del_wait"
    /\ proc[p].targets \cap LockedByOthers(p, proc[p].dt) = {}
    /\ proc' = [proc EXCEPT ![p].pc = "insert",
                            ![p].txdel = {r \in RowsOf(proc[p].dt, proc[p].sym) :
                                            Key(r) \in Keys(proc[p].targets)},
                            ![p].targets = {}]
    /\ UNCHANGED <<routed, runType, wall, stocks, prices, apilog>>
    /\ UNCHANGED notStore

\* The exception path of a fetch: leaving `with transaction.atomic()` by an
\* exception rolls back what ran on its connection; `except Exception` logs
\* (weekly) and returns or goes on to the next symbol.
FetchFails(p) ==
    /\ proc' = [proc EXCEPT ![p] = IdleProc]
    /\ apilog' = IF Logs(proc[p].path, proc[p].dt)
                 THEN apilog (+) SetToBag({LogRow(proc[p].sym, FALSE)})
                 ELSE apilog

\* Fast fetcher: the loop that parses the series, then bulk_create (itself
\* atomic on its own connection: all rows or none).
FastInsert(p) ==
    /\ proc[p].pc = "insert"
    /\ LET dt == proc[p].dt
           sym == proc[p].sym
           data == proc[p].data
           new == {Row(sym, data[i]) : i \in 1..Len(data)}
           visible == BagToSet(prices[dt]) \ proc[p].txdel
           clash == {r \in visible : Key(r) \in Keys(new)}
       IN IF Malformed(data)
          THEN /\ FetchFails(p)
               /\ UNCHANGED prices
          ELSE \* an insert waits for a transaction that holds its key
               /\ Keys(new) \cap Keys(PendingByOthers(p, dt)) = {}
               /\ clash \cap LockedByOthers(p, dt) = {}
               /\ IF ~UniqueOK(visible, new)
                  THEN /\ FetchFails(p)
                       /\ UNCHANGED prices
                  ELSE /\ apilog' = apilog
                       /\ IF Covered(dt)
                          THEN /\ prices' = prices
                               /\ proc' = [proc EXCEPT ![p].pc = "save",
                                                       ![p].txins = new]
                          ELSE /\ prices' = [prices EXCEPT ![dt] =
                                                @ (+) SetToBag(new)]
                               /\ proc' = Disturb(p, dt, sym,
                                            [proc EXCEPT ![p].pc = "save"])
    /\ UNCHANGED <<routed, runType, wall, stocks>>
    /\ UNCHANGED notStore

\* Fast fetcher: stock.save(), the end of the `with` block (the commit of what
\* ran on its connection), the success log and the return.
FastSave(p) ==
    /\ proc[p].pc = "save"
    /\ LET dt == proc[p].dt
           sym == proc[p].sym
           others == IF Covered(dt)
                     THEN Disturb(p, dt, sym, Release(p, proc))
                     ELSE proc
       IN /\ stocks' = [stocks EXCEPT ![dt][sym].last_updated = wall,
                                   ![dt][sym].refreshed = TRUE]
          /\ prices' = [prices EXCEPT ![dt] =
                            Without(@, proc[p].txdel) (+) SetToBag(proc[p].txins)]
          /\ proc' = [others EXCEPT ![p] = IdleProc]
          /\ apilog' = IF Logs("fast", dt)
                       THEN apilog (+) SetToBag({LogRow(sym, TRUE)})
                       ELSE apilog
    /\ UNCHANGED <<routed, runType, wall>>
    /\ UNCHANGED notStore

\* `update_or_create(stock=stock, date=date, defaults=...)`: the row of that
\* key is updated, or a new row is created.
Upsert(table, sym, bar) ==
    LET old == {r \in BagToSet(table) : Key(r) = <<sym, bar.date>>}
    IN Without(table, old) (+) SetToBag({Row(sym, bar)})

\* Per-type fetchers: one round of `for date_str, values in time_series.items()`.
\* A malformed key ends the symbol by an exception (weekly, daily) or is
\* skipped (intraday).
RowUpsert(p) ==
    /\ proc[p].pc = "upsert"
    /\ LET dt == proc[p].dt
           sym == proc[p].sym
           bar == proc[p].data[proc[p].i]
           last == proc[p].i = Len(proc[p].data)
           nextpc == IF last THEN "rsave" ELSE "upsert"
       IN IF bar.date = BadDate
          THEN IF dt = "intraday"
               THEN /\ proc' = [proc EXCEPT ![p].pc = nextpc, ![p].i = @ + 1]
                    /\ UNCHANGED <<prices, apilog>>
               ELSE /\ FetchFails(p)
                    /\ UNCHANGED prices
          ELSE /\ <<sym, bar.date>> \notin BlockedKeys(p, dt)
               /\ prices' = [prices EXCEPT ![dt] = Upsert(@, sym, bar)]
               /\ proc' = Disturb(p, dt, sym,
                            [proc EXCEPT ![p].pc = nextpc, ![p].i = @ + 1])
               /\ apilog' = apilog
    /\ UNCHANGED <<routed, runType, wall, stocks>>
    /\ UNCHANGED notStore

\* Per-type fetchers: stock.save() after the loop, and the success log (weekly).
RowSave(p) ==
    /\ proc[p].pc = "rsave"
    /\ stocks' = [stocks EXCEPT ![proc[p].dt][proc[p].sym].last_updated = wall,
                                ![proc[p].dt][proc[p].sym].refreshed = TRUE]
    /\ proc' = [proc EXCEPT ![p] = IdleProc]
    /\ apilog' = IF Logs("row", proc[p].dt)
                 THEN apilog (+) SetToBag({LogRow(proc[p].sym, TRUE)})
                 ELSE apilog
    /\ UNCHANGED <<routed, runType, wall, prices>>
    /\ UNCHANGED notStore

\* Half an hour passes.
WallTick ==
    /\ wall < MaxWall
    /\ wall' = wall + SamplePeriod
    /\ UNCHANGED <<routed, runType, stocks, prices, apilog, proc>>
    /\ UNCHANGED notStore

StoreNext ==
    \/ \E p \in Procs, path \in Paths, dt \in DataTypes, sym \in Requested,
          force \in BOOLEAN :
            FetchBegin(p, path, dt, sym, force)
    \/ \E p \in Procs : FetchSkip(p)
    \/ \E p \in Procs, resp \in Responses : FetchResponse(p, resp)
    \/ \E p \in Procs : FastDelete(p)
    \/ \E p \in Procs : FastDeleteResume(p)
    \/ \E p \in Procs : FastInsert(p)
    \/ \E p \in Procs : FastSave(p)
    \/ \E p \in Procs : RowUpsert(p)
    \/ \E p \in Procs : RowSave(p)
    \/ WallTick

(***************************************************************************)
(*                       The performance calculator                        *)
(***************************************************************************)

\* Bound of the calculator model: executions of compute_all that may overlap
\* (leaderboard requests, /compute-performance/, the compute_performance command).
NumCalcs == 2
Calcs == 1..NumCalcs

\* `now = datetime.now().date()` as a day number, and January 1 of its year.
Today == 2000
YearStart == Today - 20

\* PerformanceCalculator.TIME_PERIODS
TIME_PERIODS ==
    [p \in {"1D", "1W", "1M", "YTD", "6M", "1Y", "5Y"} |->
        CASE p = "1D" -> [days |-> 1, ytd |-> FALSE, source |-> "daily"]
          [] p = "1W" -> [days |-> 7, ytd |-> FALSE, source |-> "daily"]
          [] p = "1M" -> [days |-> 30, ytd |-> FALSE, source |-> "weekly"]
          [] p = "YTD" -> [days |-> 0, ytd |-> TRUE, source |-> "weekly"]
          [] p = "6M" -> [days |-> 180, ytd |-> FALSE, source |-> "weekly"]
          [] p = "1Y" -> [days |-> 365, ytd |-> FALSE, source |-> "weekly"]
          [] p = "5Y" -> [days |-> 1825, ytd |-> FALSE, source |-> "weekly"]]

\* The tracked registry, set(all_fortune_500.keys()): "ZZZZ" is not in it.
fortune_500_symbols == {"AAPL"}

\* _get_start_date
_get_start_date(now, config) ==
    IF config.ytd THEN YearStart ELSE now - config.days

\* order_by('date').first() and order_by('-date').first()
Earliest(rows) == CHOOSE r \in rows : \A o \in rows : r.date <= o.date
Latest(rows) == CHOOSE r \in rows : \A o \in rows : o.date <= r.date

\* round(x, 2) of the quotient n / d, in hundredths.
RoundDiv(n, d) ==
    IF n >= 0 THEN (2 * n + d) \div (2 * d) ELSE 0 - ((2 * (0 - n) + d) \div (2 * d))

\* A variant without the guard on the start price.
_create_record_unguarded(sym, period, s, e, source) ==
    {[symbol |-> sym, period |-> period,
      start_price |-> s.val, end_price |-> e.val,
      price_change |-> e.val - s.val,
      percent_change |-> IF s.val = 0 THEN 0
                         ELSE RoundDiv((e.val - s.val) * 10000, s.val),
      start_date |-> s.date, end_date |-> e.date,
      data_source |-> source]}

\* _create_performance_record: no record for a start price of zero.
_create_performance_record(sym, period, s, e, source) ==
    IF s.val = 0
    THEN {}
    ELSE {[symbol |-> sym, period |-> period,
           start_price |-> s.val, end_price |-> e.val,
           price_change |-> e.val - s.val,
           percent_change |-> RoundDiv((e.val - s.val) * 10000, s.val),
           start_date |-> s.date, end_date |-> e.date,
           data_source |-> source]}

\* _calculate_stock_performance_daily / _calculate_stock_performance_weekly:
\* the last two bars for '1D' (daily only); else the first bar on or after
\* start_date and the last bar, which must differ.
_calculate_stock_performance(source, sym, period, start_date) ==
    LET rows == RowsOf(source, sym)
        from == {r \in rows : r.date >= start_date}
    IN IF source = "daily" /\ period = "1D"
       THEN IF Cardinality(rows) < 2
            THEN {}
            ELSE _create_performance_record(sym, period,
                    Latest(rows \ {Latest(rows)}), Latest(rows), source)
       ELSE IF from = {} \/ Earliest(from) = Latest(rows)
            THEN {}
            ELSE _create_performance_record(sym, period,
                    Earliest(from), Latest(rows), source)

\* _compute_daily_performance / _compute_weekly_performance: the instruments of
\* the source store that are in the registry.
_compute_performance(source, period, start_date) ==
    UNION {_calculate_stock_performance(source, sym, period, start_date) :
             sym \in {x \in fortune_500_symbols : stocks[source][x].exists}}

\* performances_to_create of compute_all.
performances_to_create ==
    UNION {_compute_performance(TIME_PERIODS[p].source, p,
                                _get_start_date(Today, TIME_PERIODS[p])) :
             p \in DOMAIN TIME_PERIODS}

\* StockPerformance has no .using(): the router's answer, else 'default'.
PerfAlias(r) ==
    IF r THEN db_for_write("stocks", "stockperformance") ELSE "default"
PerfCovered == PerfAlias(routed) = AtomicAlias

\* unique_together = ['symbol', 'period']
PairKey(r) == <<r.symbol, r.period>>
PairKeys(rows) == {PairKey(r) : r \in rows}
PairUniqueOK(rows, new) == PairKeys(rows) \cap PairKeys(new) = {}

\* Price histories the fetchers leave in the weekly and the daily store.
Recent == <<Bar(Today - 1, 100), Bar(Today, 110)>>
Sparse == <<Bar(Today - 40, 100), Bar(Today, 120)>>
Single == <<Bar(Today, 110)>>
ZeroStart == <<Bar(Today - 1, 0), Bar(Today, 110)>>
Histories ==
    {<<Recent, Recent>>, <<Sparse, Sparse>>, <<Recent, <<>>>>,
     <<Single, Single>>, <<ZeroStart, Recent>>}

TableOf(sym, series) == SetToBag({Row(sym, series[i]) : i \in 1..Len(series)})

IdleCalc ==
    [pc |-> "idle", todo |-> {}, targets |-> {}, txdel |-> {}, txins |-> {},
     solo |-> TRUE]

PerfIdle ==
    /\ perf = EmptyBag
    /\ calc = [c \in Calcs |-> IdleCalc]

PerfInit ==
    /\ routed \in BOOLEAN
    /\ runType = "weekly"
    /\ wall = 0
    /\ stocks = [dt \in DataTypes |-> [s \in Symbols |-> NoStock]]
    /\ prices = [dt \in DataTypes |-> EmptyBag]
    /\ apilog = EmptyBag
    /\ proc = [p \in Procs |-> IdleProc]
    /\ PerfIdle

\* The fetchers, seen from the calculator: the weekly and daily stores now hold
\* another history of the tracked symbol (h[1] weekly, h[2] daily) beside the
\* rows of an untracked symbol.
DataChanges(h) ==
    /\ stocks' = [stocks EXCEPT
                    !["weekly"] = [s \in Symbols |-> [exists |-> TRUE, last_updated |-> wall,
                                                     refreshed |-> TRUE]],
                    !["daily"] = [s \in Symbols |-> [exists |-> TRUE, last_updated |-> wall,
                                                     refreshed |-> TRUE]]]
    /\ prices' = [prices EXCEPT
                    !["weekly"] = TableOf("AAPL", h[1]) (+) TableOf("ZZZZ", Recent),
                    !["daily"] = TableOf("AAPL", h[2]) (+) TableOf("ZZZZ", Recent)]
    /\ prices' # prices
    /\ UNCHANGED <<routed, perf, calc>>
    /\ UNCHANGED notPerf

PerfLockedByOthers(c) == UNION {calc[q].txdel : q \in Calcs \ {c}}
PerfPendingByOthers(c) == UNION {calc[q].txins : q \in Calcs \ {c}}

\* A write of q to StockPerformance became visible.
PerfDisturb(q, cs) ==
    [c \in Calcs |->
        IF c # q /\ cs[c].pc # "idle"
        THEN [cs[c] EXCEPT !.solo = FALSE,
                           !.targets = IF cs[c].pc = "del_wait"
                                       THEN @ \ cs[q].txdel ELSE @]
        ELSE cs[c]]

\* compute_all, lines 40-53: the rows are computed from the price stores.
PerfCompute(c) ==
    /\ calc[c].pc = "idle"
    /\ calc' = [calc EXCEPT ![c] = [IdleCalc EXCEPT !.pc = "delete",
                                                    !.todo = performances_to_create]]
    /\ UNCHANGED <<routed, stocks, prices, perf>>
    /\ UNCHANGED notPerf

\* `StockPerformance.objects.all().delete()` inside `with transaction.atomic()`.
PerfDelete(c) ==
    /\ calc[c].pc = "delete"
    /\ LET targets == BagToSet(perf)
       IN IF ~PerfCovered
          THEN /\ perf' = EmptyBag
               /\ calc' = IF targets = {}
                          THEN [calc EXCEPT ![c].pc = "insert"]
                          ELSE PerfDisturb(c, [calc EXCEPT ![c].pc = "insert"])
          ELSE /\ perf' = perf
               /\ IF targets \cap PerfLockedByOthers(c) = {}
                  THEN calc' = [calc EXCEPT ![c].pc = "insert",
                                            ![c].txdel = targets]
                  ELSE calc' = [calc EXCEPT ![c].pc = "del_wait",
                                            ![c].targets = targets]
    /\ UNCHANGED <<routed, stocks, prices>>
    /\ UNCHANGED notPerf

\* The delete goes on once the rows it waited for are released.
PerfDeleteResume(c) ==
    /\ calc[c].pc = "del_wait"
    /\ calc[c].targets \cap PerfLockedByOthers(c) = {}
    /\ calc' = [calc EXCEPT ![c].pc = "insert",
                            ![c].txdel = {r \in BagToSet(perf) :
                                            PairKey(r) \in PairKeys(calc[c].targets)},
                            ![c].targets = {}]
    /\ UNCHANGED <<routed, stocks, prices, perf>>
    /\ UNCHANGED notPerf

\* `StockPerformance.objects.bulk_create(performances_to_create, batch_size=1000)`:
\* all rows or, on an IntegrityError, none; the exception leaves the `with`
\* block (rollback) and compute_all.
PerfInsert(c) ==
    /\ calc[c].pc = "insert"
    /\ LET new == calc[c].todo
           visible == BagToSet(perf) \ calc[c].txdel
           clash == {r \in visible : PairKey(r) \in PairKeys(new)}
       IN /\ PairKeys(new) \cap PairKeys(PerfPendingByOthers(c)) = {}
          /\ clash \cap PerfLockedByOthers(c) = {}
          /\ IF ~PairUniqueOK(visible, new)
             THEN /\ calc' = [calc EXCEPT ![c] = [IdleCalc EXCEPT !.pc = "raised"]]
                  /\ perf' = perf
             ELSE IF PerfCovered
                  THEN /\ perf' = perf
                       /\ calc' = [calc EXCEPT ![c].pc = "commit", ![c].txins = new]
                  ELSE /\ perf' = perf (+) SetToBag(new)
                       /\ calc' = IF new = {}
                                  THEN [calc EXCEPT ![c].pc = "commit"]
                                  ELSE PerfDisturb(c, [calc EXCEPT ![c].pc = "commit"])
    /\ UNCHANGED <<routed, stocks, prices>>
    /\ UNCHANGED notPerf

\* The end of the `with` block (the commit of what ran on its connection) and
\* `return {'computed': ...}`.
PerfCommit(c) ==
    /\ calc[c].pc = "commit"
    /\ perf' = Without(perf, calc[c].txdel) (+) SetToBag(calc[c].txins)
    /\ calc' = [(IF calc[c].txdel \cup calc[c].txins = {}
                 THEN calc ELSE PerfDisturb(c, calc)) EXCEPT ![c] = IdleCalc]
    /\ UNCHANGED <<routed, stocks, prices>>
    /\ UNCHANGED notPerf

\* The exception of compute_all reaches its caller.
PerfRaised(c) ==
    /\ calc[c].pc = "raised"
    /\ calc' = [calc EXCEPT ![c] = IdleCalc]
    /\ UNCHANGED <<routed, stocks, prices, perf>>
    /\ UNCHANGED notPerf

PerfNext ==
    \/ \E h \in Histories : DataChanges(h)
    \/ \E c \in Calcs : PerfCompute(c)
    \/ \E c \in Calcs : PerfDelete(c)
    \/ \E c \in Calcs : PerfDeleteResume(c)
    \/ \E c \in Calcs : PerfInsert(c)
    \/ \E c \in Calcs : PerfCommit(c)
    \/ \E c \in Calcs : PerfRaised(c)

(***************************************************************************)
(*                         The ingestion commands                          *)
(***************************************************************************)

\* Bounds of the command model: the largest --retries, the --workers of a run,
\* and the most tasks the options of a run may ask for.
MaxRetries == 2
NumWorkers == 2
MaxTasks == 2

\* symbol = models.CharField(max_length=10, ...)
MaxSymbolLen == 10

\* fetch_stocks_fast, fetch_weekly_stocks, fetch_daily_stocks, fetch_intraday_stocks
Commands == {"fast", "weekly", "daily", "intraday"}
\* The --symbols option.
SymbolLists == {<<"AAPL">>, <<"AAPL", "MSFT">>, <<"TOOLONGSYMBOL", "AAPL">>}
\* The data types fetch_stocks_fast is asked for, in the order handle appends them.
TypeLists == {<<"weekly">>, <<"daily">>, <<"intraday">>, <<"overview">>,
              <<"weekly", "overview">>}

\* An error value: None, or a text.
None == [none |-> TRUE, text |-> ""]
Err(text) == [none |-> FALSE, text |-> text]

\* `lit in s` on Python strings.
Contains(s, lit) ==
    \E i \in 1..(Len(s) - Len(lit) + 1) : SubSeq(s, i, i + Len(lit) - 1) = lit

\* Command.RETRIABLE_ERRORS
RETRIABLE_ERRORS ==
    {"rate limit", "Rate limit", "Information", "timed out", "timeout",
     "ConnectionError", "ConnectionPool"}

\* Command.is_retriable_error
is_retriable_any(error) == ~error.none /\ error.text # ""
is_retriable_error(error) ==
    IF error.none \/ error.text = ""
    THEN FALSE
    ELSE \E err \in RETRIABLE_ERRORS : Contains(error.text, err)

\* What the vendor call of a task gives: a body with 'Error Message' (whose
\* value is a text, empty or null), with 'Note', with 'Information', with none
\* of the keys the fetcher knows, the expected payload, a read timeout of
\* requests.get, or a body response.json() cannot parse; or no call at all
\* because the instrument is fresh.
VendorAnswers ==
    {[kind |-> k, err |-> None] :
        k \in {"ok", "fresh", "note", "information", "other", "timeout", "badjson"}}
      \cup {[kind |-> "error_message", err |-> e] :
              e \in {Err("Invalid symbol: ZZZZ"), Err(""), None}}

\* The error a fetch function of fetch_stocks_fast returns for an answer.
FastError(dt, answer) ==
    CASE answer.kind = "error_message" -> answer.err
      [] answer.kind = "note" -> Err("API rate limit hit")
      [] answer.kind = "information" ->
            IF dt = "overview" THEN Err("Invalid response: no Symbol field")
            ELSE IF dt = "intraday"
                 THEN Err("No time series in response: ['Information']")
                 ELSE Err("Unexpected response: ['Information']")
      [] answer.kind = "other" ->
            IF dt = "overview" THEN Err("Invalid response: no Symbol field")
            ELSE IF dt = "intraday" THEN Err("No time series in response: []")
                 ELSE Err("Unexpected response: []")
      [] answer.kind = "timeout" ->
            Err("HTTPSConnectionPool(host='www.alphavantage.co', port=443): Read timed out. (read timeout=30)")
      [] answer.kind = "badjson" -> Err("Expecting value: line 1 column 1 (char 0)")
      [] OTHER -> None

\* The exception a per-type fetcher raises, or catches, for an answer.
RowError(sym, answer) ==
    CASE answer.kind = "error_message" -> Err("Invalid symbol: " \o sym)
      [] answer.kind = "note" -> Err("API rate limit reached")
      [] answer.kind \in {"information", "other"} -> Err("Unexpected API response format")
      [] OTHER -> FastError("weekly", answer)

\* get_or_create(symbol=symbol) and APICallLog.objects.create(symbol=symbol):
\* the database refuses a symbol longer than the column.
DataError == Err("value too long for type character varying(10)")
Storable(sym) == Len(sym) <= MaxSymbolLen

\* What one task returns, (success, error) with the answer it got; a task whose
\* exception is caught by fetch_task or by the command's `except` fails with
\* str(e).
Outcome(cmd, dt, sym, answer) ==
    IF ~Storable(sym)
    THEN [ok |-> FALSE, error |-> DataError, answer |-> "none"]
    ELSE IF answer.kind \in {"ok", "fresh"}
         THEN [ok |-> TRUE, error |-> None, answer |-> answer.kind]
         ELSE [ok |-> FALSE,
               error |-> IF cmd = "fast" THEN FastError(dt, answer)
                         ELSE RowError(sym, answer),
               answer |-> answer.kind]

\* fetch_weekly_stocks: the `except Exception` of the loop writes an APICallLog
\* row for the symbol outside any try; when that write raises, the exception
\* leaves handle.
Escapes(cmd, sym) == cmd = "weekly" /\ ~Storable(sym)

\* The task list handle builds: for each symbol, each requested type.
Tasks(symbols, types) ==
    [k \in 1..(Len(symbols) * Len(types)) |->
        <<types[((k - 1) % Len(types)) + 1],
          symbols[((k - 1) \div Len(types)) + 1]>>]

\* ThreadPoolExecutor(max_workers=workers); the weekly and daily commands loop.
Workers(cmd) == IF cmd \in {"weekly", "daily"} THEN 1 ELSE NumWorkers

\* `while failed_tasks and retry_round < max_retries`
MayRetryLoose(failed, round, max_retries) == failed # <<>> /\ round <= max_retries
MayRetry(failed, round, max_retries) == failed # <<>> /\ round < max_retries

Range(seq) == {seq[i] : i \in 1..Len(seq)}
NoResults == [t \in {} |-> None]

\* fetch_task: `rate_limiter.acquire()` is the first statement of the try, once
\* per attempt; the per-type commands have no RateLimiter.
acquires_none(cmd) == 0
acquires(cmd) == IF cmd = "fast" THEN 1 ELSE 0

\* requests.get is reached by a task whose get_or_create did not raise and
\* whose freshness check did not return.
Called(sym, answer) == Storable(sym) /\ answer.kind # "fresh"

\* `final_failed = total_tasks - completed['success']`
total_tasks == Len(Tasks(args.symbols, args.types))
last_pass_failed == completed.failed
final_failed == total_tasks - completed.success

\* Nothing has happened in the run yet.
NoHistory == [acquired |-> 0, called |-> 0, last |-> [t \in {} |-> TRUE]]

CmdInit ==
    /\ \E cmd \in Commands, symbols \in SymbolLists, types \in TypeLists,
          max_retries \in 0..MaxRetries :
          /\ cmd = "fast" \/ (types = <<cmd>> /\ max_retries = 0)
          /\ Len(symbols) * Len(types) <= MaxTasks
          /\ args = [cmd |-> cmd, symbols |-> symbols, types |-> types,
                     max_retries |-> max_retries]
    /\ phase = "pass"
    /\ passTasks = Tasks(args.symbols, args.types)
    /\ queue = passTasks
    /\ running = {}
    /\ results = NoResults
    /\ failed_tasks = <<>>
    /\ retry_round = 0
    /\ completed = [count |-> 0, success |-> 0, failed |-> 0]
    /\ attempted = {}
    /\ hist = NoHistory

\* No command runs.
CmdIdle ==
    /\ args = [cmd |-> "fast", symbols |-> <<>>, types |-> <<>>, max_retries |-> 0]
    /\ phase = "summary"
    /\ passTasks = <<>>
    /\ queue = <<>>
    /\ running = {}
    /\ results = NoResults
    /\ failed_tasks = <<>>
    /\ retry_round = 0
    /\ completed = [count |-> 0, success |-> 0, failed |-> 0]
    /\ attempted = {}
    /\ hist = NoHistory

\* A worker takes the next submitted task (the loop takes the next symbol).
TaskStart ==
    /\ phase = "pass"
    /\ queue # <<>>
    /\ Cardinality(running) < Workers(args.cmd)
    /\ running' = running \cup {Head(queue)}
    /\ attempted' = attempted \cup {Head(queue)}
    /\ queue' = Tail(queue)
    /\ hist' = [hist EXCEPT !.acquired = @ + acquires(args.cmd)]
    /\ UNCHANGED <<args, phase, passTasks, results, failed_tasks, retry_round,
                   completed>>
    /\ UNCHANGED notCmd

\* fetch_task (fast), the body of the loop (weekly, daily) or fetch_symbol
\* (intraday) runs to its end for task t: the counters are updated and a
\* retriable failure is appended to failed_tasks.
TaskFinish(t, answer) ==
    /\ phase = "pass"
    /\ t \in running
    /\ running' = running \ {t}
    /\ IF Escapes(args.cmd, t[2])
       THEN /\ phase' = "aborted"
            /\ UNCHANGED <<results, failed_tasks, completed, hist>>
       ELSE LET out == Outcome(args.cmd, t[1], t[2], answer)
            IN /\ phase' = phase
               /\ hist' =
                    [acquired |-> hist.acquired,
                     called |-> hist.called
                                  + (IF Called(t[2], answer) THEN 1 ELSE 0),
                     last |-> [x \in DOMAIN hist.last \cup {t} |->
                                 IF x = t THEN out.ok ELSE hist.last[x]]]
               /\ results' = [x \in DOMAIN results \cup {t} |->
                                IF x = t THEN out ELSE results[x]]
               /\ completed' =
                    [count |-> completed.count + 1,
                     success |-> completed.success + (IF out.ok THEN 1 ELSE 0),
                     failed |-> completed.failed + (IF out.ok THEN 0 ELSE 1)]
               /\ failed_tasks' =
                    IF args.cmd = "fast" /\ ~out.ok /\ is_retriable_error(out.error)
                    THEN Append(failed_tasks, <<t[1], t[2], out.error>>)
                    ELSE failed_tasks
    /\ UNCHANGED <<args, passTasks, queue, retry_round, attempted>>
    /\ UNCHANGED notCmd

\* A retry round that would not wait for run_tasks to return.
NextRoundEarly ==
    /\ phase = "pass" /\ queue = <<>>
    /\ args.cmd = "fast"
    /\ MayRetry(failed_tasks, retry_round, args.max_retries)
    /\ retry_round' = retry_round + 1
    /\ passTasks' = [i \in 1..Len(failed_tasks) |->
                        <<failed_tasks[i][1], failed_tasks[i][2]>>]
    /\ queue' = passTasks'
    /\ failed_tasks' = <<>>
    /\ completed' = [completed EXCEPT !.count = 0, !.failed = 0]
    /\ results' = NoResults
    /\ UNCHANGED <<args, phase, running, attempted, hist>>
    /\ UNCHANGED notCmd

\* run_tasks has returned and the `while` loop starts a retry round.
NextRound ==
    /\ phase = "pass" /\ queue = <<>> /\ running = {}
    /\ args.cmd = "fast"
    /\ MayRetry(failed_tasks, retry_round, args.max_retries)
    /\ retry_round' = retry_round + 1
    /\ passTasks' = [i \in 1..Len(failed_tasks) |->
                        <<failed_tasks[i][1], failed_tasks[i][2]>>]
    /\ queue' = passTasks'
    /\ failed_tasks' = <<>>
    /\ completed' = [completed EXCEPT !.count = 0, !.failed = 0]
    /\ results' = NoResults
    /\ UNCHANGED <<args, phase, running, attempted, hist>>
    /\ UNCHANGED notCmd

\* The loop is over: the command writes its summary.
Summary ==
    /\ phase = "pass" /\ queue = <<>> /\ running = {}
    /\ ~(args.cmd = "fast" /\ MayRetry(failed_tasks, retry_round, args.max_retries))
    /\ phase' = "summary"
    /\ UNCHANGED <<args, passTasks, queue, running, results, failed_tasks,
                   retry_round, completed, attempted, hist>>
    /\ UNCHANGED notCmd

CmdNext ==
    \/ TaskStart
    \/ \E t \in running, answer \in VendorAnswers : TaskFinish(t, answer)
    \/ NextRound
    \/ Summary

(***************************************************************************)
(*                  The endpoints /seed/ and social_login                  *)
(***************************************************************************)

\* Bound of the endpoint model: the /seed/ requests served.
MaxSeeds == 2

\* os.getenv('SEED_SECRET_KEY', 'stockseed2024')
secret_key == "stockseed2024"

\* A request parameter: absent (request.GET.get gives None), or its text.
Absent == [given |-> FALSE, text |-> ""]
Param(text) == [given |-> TRUE, text |-> text]

\* int(text): the value, or ValueError for a text that is no decimal number.
IsInt(text) ==
    /\ Len(text) > 0
    /\ \A i \in 1..Len(text) :
          \E d \in 1..10 : SubSeq(text, i, i) = SubSeq("0123456789", d, d)
RECURSIVE IntVal(_)
IntVal(text) ==
    IF text = "" THEN 0
    ELSE 10 * IntVal(SubSeq(text, 1, Len(text) - 1))
         + (CHOOSE d \in 0..9 :
               SubSeq(text, Len(text), Len(text)) = SubSeq("0123456789", d + 1, d + 1))

\* The /seed/ requests: the key and the options read with int().
SeedRequests ==
    [key : {Absent, Param(""), Param("wrong"), Param(secret_key)},
     workers : {Absent, Param("15"), Param("many")},
     qpm : {Absent, Param("70"), Param("0")}]

\* `request.GET.get('key') or request.data.get('key')` of a request that
\* carries its key in the query string.
provided_key(req) == IF req.key.text = "" THEN Absent ELSE req.key

\* seed_all_stocks: the key check, the options, thread.start(), the estimate.
\* int() of an option raises before the thread is started, the division by
\* qpm after it; an exception leaving the view is answered with 500.
seed_all_stocks(req) ==
    /\ seed.served < MaxSeeds
    /\ LET workers == IF req.workers.given THEN req.workers.text ELSE "15"
           qpmText == IF req.qpm.given THEN req.qpm.text ELSE "70"
           denied == provided_key(req) # Param(secret_key)
           raised == ~IsInt(workers) \/ ~IsInt(qpmText)
       IN seed' =
            [req |-> req,
             served |-> seed.served + 1,
             finished |-> seed.finished,
             started |-> IF denied \/ raised THEN seed.started ELSE seed.started + 1,
             resp |-> IF denied THEN [status |-> 403, estimate |-> FALSE]
                      ELSE IF raised \/ IntVal(qpmText) = 0
                           THEN [status |-> 500, estimate |-> FALSE]
                           ELSE [status |-> 200, estimate |-> TRUE]]
    /\ UNCHANGED <<users, accounts, login>>
    /\ UNCHANGED notApi

\* run_seed: call_command('fetch_stocks_fast', ...) returns, or raises and the
\* thread prints the error.
run_seed ==
    /\ seed.finished < seed.started
    /\ seed' = [seed EXCEPT !.finished = @ + 1]
    /\ UNCHANGED <<users, accounts, login>>
    /\ UNCHANGED notApi

\* Bounds of the social_login model: requests served at once, and the
\* requests one of them serves in a row.
NumLogins == 2
MaxLogins == 2
Logins == 1..NumLogins

\* BaseUserManager.normalize_email, called by create_user: the domain part of
\* the address is lowercased.
RECURSIVE Lower(_)
Lower(str) ==
    LET c == SubSeq(str, 1, 1)
    IN IF str = "" THEN ""
       ELSE (CASE c = "A" -> "a" [] c = "B" -> "b" [] c = "C" -> "c" [] c = "M" -> "m"
               [] c = "O" -> "o" [] c = "X" -> "x" [] OTHER -> c)
            \o Lower(SubSeq(str, 2, Len(str)))
normalize_email(email) ==
    LET at == CHOOSE i \in 1..Len(email) :
                 /\ SubSeq(email, i, i) = "@"
                 /\ \A j \in (i + 1)..Len(email) : SubSeq(email, j, j) # "@"
    IN SubSeq(email, 1, at) \o Lower(SubSeq(email, at + 1, Len(email)))

\* The body of a social_login request; "" stands for a missing field.
LoginRequests == [access_token : {"", "token"}, provider : {"", "google", "microsoft", "github"}]

\* What verify_google_token / verify_microsoft_token return: None (the call
\* raised or was not answered 200), or the profile with its subject id and,
\* when the provider gives one, its email.
NoProfile == [ok |-> FALSE, sub |-> "", email |-> ""]
UserInfos ==
    {NoProfile} \cup [ok : {TRUE}, sub : {"s1", "s2"}, email : {"", "a@x.com", "b@X.com"}]

\* `provider not in ['google', 'microsoft']`
AnyProvider(provider) == TRUE
ValidProvider(provider) == provider \in {"google", "microsoft"}

\* A response, by its status and whether it carries a token pair; status 0
\* for none yet.
Reply(status) == [status |-> status, tokens |-> status = 200]
IdleLogin ==
    [pc |-> "idle", req |-> [access_token |-> "", provider |-> ""],
     info |-> NoProfile, user |-> "", resp |-> Reply(0), served |-> 0]

\* No request was served yet.
ApiIdle ==
    /\ seed = [req |-> [key |-> Absent, workers |-> Absent, qpm |-> Absent],
               resp |-> [status |-> 0, estimate |-> FALSE],
               started |-> 0, finished |-> 0, served |-> 0]
    /\ users = {}
    /\ accounts = {}
    /\ login = [p \in Logins |-> IdleLogin]

\* social_login up to `email = user_info.get('email')`: the checks of the
\* body, the provider's userinfo call, the check of the email.
LoginBegin(p, req, user_info) ==
    /\ login[p].pc = "idle"
    /\ login[p].served < MaxLogins
    /\ LET status == IF req.access_token = "" THEN 400
                     ELSE IF ~ValidProvider(req.provider) THEN 400
                     ELSE IF ~user_info.ok THEN 401
                     ELSE IF user_info.email = "" THEN 400
                     ELSE 0
           called == req.access_token # "" /\ ValidProvider(req.provider)
       IN login' = [login EXCEPT ![p] =
                      [pc |-> IF status # 0 THEN "idle" ELSE "get",
                       req |-> req,
                       info |-> IF called THEN user_info ELSE NoProfile,
                       user |-> "",
                       resp |-> IF status # 0 THEN Reply(status) ELSE Reply(0),
                       served |-> login[p].served + 1]]
    /\ UNCHANGED <<seed, users, accounts>>
    /\ UNCHANGED notApi

\* The request ends: with a response, or with 500 for an exception that
\* leaves the view.
Done(p, status) ==
    [login[p] EXCEPT !.pc = "idle", !.resp = Reply(status)]

\* `User.objects.get(email=email)`
LoginGet(p) ==
    /\ login[p].pc = "get"
    /\ LET found == {u \in users : u.email = login[p].info.email}
       IN login' = [login EXCEPT ![p] =
                      IF found = {} THEN [@ EXCEPT !.pc = "create"]
                      ELSE IF Cardinality(found) = 1
                           THEN [@ EXCEPT !.pc = "link",
                                          !.user = (CHOOSE u \in found : TRUE).username]
                           ELSE Done(p, 500)]
    /\ UNCHANGED <<seed, users, accounts>>
    /\ UNCHANGED notApi

\* `User.objects.create_user(username=email, email=email, ...)`: username is
\* unique, the stored email is normalized.
LoginCreate(p) ==
    /\ login[p].pc = "create"
    /\ LET email == login[p].info.email
       IN IF \E u \in users : u.username = email
          THEN /\ login' = [login EXCEPT ![p] = Done(p, 500)]
               /\ users' = users
          ELSE /\ users' = users \cup {[username |-> email,
                                        email |-> normalize_email(email)]}
               /\ login' = [login EXCEPT ![p] = [@ EXCEPT !.pc = "link", !.user = email]]
    /\ UNCHANGED <<seed, accounts>>
    /\ UNCHANGED notApi

\* `SocialAccount.objects.update_or_create(user=user, provider=provider,
\* defaults={'uid': uid, ...})`, then the token pair and the response.
\* SocialAccount is unique in (provider, uid).
LoginLink(p) ==
    /\ login[p].pc = "link"
    /\ LET mine == {a \in accounts : a.user = login[p].user
                                       /\ a.provider = login[p].req.provider}
           new == [user |-> login[p].user, provider |-> login[p].req.provider,
                   uid |-> login[p].info.sub]
           clash == \E a \in accounts \ mine : a.provider = new.provider /\ a.uid = new.uid
       IN IF clash \/ Cardinality(mine) > 1
          THEN /\ accounts' = accounts
               /\ login' = [login EXCEPT ![p] = Done(p, 500)]
          ELSE /\ accounts' = (accounts \ mine) \cup {new}
               /\ login' = [login EXCEPT ![p] = Done(p, 200)]
    /\ UNCHANGED <<seed, users>>
    /\ UNCHANGED notApi

SeedNext ==
    \/ \E req \in SeedRequests : seed_all_stocks(req)
    \/ run_seed

LoginNext ==
    \/ \E p \in Logins, req \in LoginRequests, user_info \in UserInfos :
          LoginBegin(p, req, user_info)
    \/ \E p \in Logins : LoginGet(p)
    \/ \E p \in Logins : LoginCreate(p)
    \/ \E p \in Logins : LoginLink(p)

(***************************************************************************)
(*             The bars stored from one vendor response                    *)
(***************************************************************************)

\* The four fetchers of weekly and daily bars: the per-type commands and the
\* functions of fetch_stocks_fast.
BarFetchers == {"fetch_weekly_stocks", "fast_weekly", "fetch_daily_stocks", "fast_daily"}

\* An item of the vendor's time series: its date, as days before the run
\* date, and '1. open', '2. high', '3. low', '4. close', '5. adjusted close'.
VendorBars ==
    [age : {0, 90, 91, 200}, open : {100, 120}, high : {140}, low : {80},
     close : {0, 100}, adjusted : {50, 100}]

\* `float(values[...]) * adj_ratio` with
\* `adj_ratio = adjusted_close / raw_close if raw_close != 0 else 1`
\* (the sample values divide exactly).
Adjust(x, bar) == IF bar.close # 0 THEN (x * bar.adjusted) \div bar.close ELSE x * 1

\* The row a fetcher stores for an item: fetch_weekly_stocks passes the
\* vendor's open, high and low through, the other three apply adj_ratio.
StoredRow(fetcher, bar) ==
    IF fetcher = "fetch_weekly_stocks"
    THEN [date |-> Today - bar.age, open_price |-> bar.open, high_price |-> bar.high,
          low_price |-> bar.low, close_price |-> bar.adjusted]
    ELSE [date |-> Today - bar.age, open_price |-> Adjust(bar.open, bar),
          high_price |-> Adjust(bar.high, bar), low_price |-> Adjust(bar.low, bar),
          close_price |-> bar.adjusted]

IngestIdle == ingest = [fetcher |-> "", todo |-> {}, stored |-> {}]

\* A response holds one item per date.
IngestInit ==
    \E fetcher \in BarFetchers, b1, b2 \in VendorBars :
        /\ b1 = b2 \/ b1.age < b2.age
        /\ ingest = [fetcher |-> fetcher, todo |-> {b1, b2}, stored |-> {}]

\* One turn of `for date_str, values in time_series.items()`: the item is
\* converted and stored (update_or_create, or bulk_create at the end).
StoreItem(bar) ==
    /\ bar \in ingest.todo
    /\ ingest' = [ingest EXCEPT
                    !.todo = @ \ {bar},
                    !.stored = @ \cup {[vendor |-> bar,
                                        row |-> StoredRow(ingest.fetcher, bar)]}]
    /\ UNCHANGED notIngest

IngestNext == \E bar \in VendorBars : StoreItem(bar)

(***************************************************************************)
(*                              StockRouter                                *)
(***************************************************************************)

\* StockRouter.db_for_read
db_for_read(app_label, model_name) ==
    IF app_label = "stocks"
    THEN IF model_name \in daily_models THEN "daily"
         ELSE IF model_name \in intraday_models THEN "intraday"
              ELSE "adjusted"
    ELSE "default"

\* StockRouter.allow_migrate
allow_any(db, app_label, model_name) == TRUE
allow_migrate(db, app_label, model_name) ==
    IF app_label = "stocks"
    THEN IF model_name \in daily_models THEN db = "daily"
         ELSE IF model_name \in intraday_models THEN db = "intraday"
              ELSE db = "adjusted"
    ELSE db = "default"

\* The queries Django puts to the router: a store of settings.DATABASES, and
\* a model by its app label and lower-case name.
RouterQueries ==
    [db : {"default", "adjusted", "daily", "intraday"},
     app_label : {"stocks", "auth", "socialaccount"},
     model_name : {"stock", "stockprice", "apicalllog", "stockperformance",
                   "dailystock", "dailystockprice", "intradaystock",
                   "intradaystockprice", "user", "socialaccount"}]

\* StockRouter.allow_relation: True, or None (no opinion) by falling through.
db_set == {"default", "adjusted", "daily", "intraday"}
allow_relation(db1, db2) ==
    IF db1 \in db_set /\ db2 \in db_set THEN "True" ELSE "None"

\* obj._state.db of the two objects of a relation: a store of
\* settings.DATABASES or a store the settings do not name.
ObjectStores == db_set \cup {"replica", "archive"}

RouteIdle ==
    route = [asked |-> FALSE, q |-> [db |-> "", app_label |-> "", model_name |-> ""],
             read |-> "", write |-> "", migrate |-> FALSE,
             related |-> FALSE, db1 |-> "", db2 |-> "", relation |-> ""]

\* Django asks the router about a model and a store.
Resolve(q) ==
    /\ route' = [route EXCEPT
                    !.asked = TRUE, !.q = q,
                    !.read = db_for_read(q.app_label, q.model_name),
                    !.write = db_for_write(q.app_label, q.model_name),
                    !.migrate = allow_migrate(q.db, q.app_label, q.model_name)]
    /\ UNCHANGED notRoute

\* Django asks the router whether two objects may be related.
Relate(db1, db2) ==
    /\ route' = [route EXCEPT !.related = TRUE, !.db1 = db1, !.db2 = db2,
                              !.relation = allow_relation(db1, db2)]
    /\ UNCHANGED notRoute

RouteNext ==
    \/ \E q \in RouterQueries : Resolve(q)
    \/ \E db1, db2 \in ObjectStores : Relate(db1, db2)

(***************************************************************************)
(*                     GET /stocks/ (get_multiple_stocks)                  *)
(***************************************************************************)

\* Bound of the view model: the requests served.
MaxRequests == 2

\* The symbols parameter after split, strip and upper: none, symbols the
\* Stock table can hold, and one its symbol column cannot.
ViewRequests ==
    {<<>>, <<"AAPL">>, <<"ZZZZ">>, <<"AAPL", "ZZZZ">>, <<"TOOLONGSYMBOL", "AAPL">>}

\* What the vendor gives the command for a symbol: a 'Note', a series, or a
\* series with a key that is no date.
ViewResponses ==
    {[kind |-> "note", series |-> <<>>],
     [kind |-> "ok", series |-> <<Bar(1, 1)>>],
     [kind |-> "ok", series |-> <<Bar(1, 1), Bar(BadDate, 1)>>]}

\* The loop over time_series.items() of fetch_weekly_stocks / fetch_daily_stocks:
\* update_or_create per item, until strptime raises.
RECURSIVE UpsertAll(_, _, _)
UpsertAll(table, sym, series) ==
    IF series = <<>> \/ Head(series).date = BadDate
    THEN table
    ELSE UpsertAll(Upsert(table, sym, Head(series)), sym, Tail(series))

\* handle of fetch_weekly_stocks / fetch_daily_stocks called with force=True:
\* for each symbol get_or_create, the vendor call, the rows, stock.save(); an
\* exception ends the symbol, and in the weekly command the handler's own
\* APICallLog write lets the exception of an unstorable symbol leave handle.
RECURSIVE RunFetch(_, _, _, _)
RunFetch(dt, syms, answer, acc) ==
    IF syms = <<>> \/ acc.raised
    THEN acc
    ELSE LET sym == Head(syms)
             r == answer[sym]
             st == IF acc.stocks[sym].exists THEN acc.stocks[sym]
                   ELSE [exists |-> TRUE, last_updated |-> wall, refreshed |-> FALSE]
             good == r.kind = "ok" /\ ~Malformed(r.series)
             next ==
                IF ~Storable(sym)
                THEN [acc EXCEPT !.raised = Escapes(dt, sym)]
                ELSE [stocks |-> [acc.stocks EXCEPT ![sym] =
                                    IF good
                                    THEN [st EXCEPT !.last_updated = wall,
                                                    !.refreshed = TRUE]
                                    ELSE st],
                      table |-> IF r.kind = "ok"
                                THEN UpsertAll(acc.table, sym, r.series)
                                ELSE acc.table,
                      log |-> IF Logs("row", dt)
                              THEN acc.log (+) SetToBag({LogRow(sym, good)})
                              ELSE acc.log,
                      called |-> acc.called \cup {sym},
                      fetched |-> IF good THEN acc.fetched \cup {sym}
                                  ELSE acc.fetched,
                      raised |-> FALSE]
         IN RunFetch(dt, Tail(syms), answer, next)

\* No request was served yet.
ViewIdle ==
    view = [served |-> 0, status |-> 0, symbols |-> <<>>, present |-> {},
            data |-> {}, errors |-> <<>>, called |-> {}, fetched |-> {}]

\* get_multiple_stocks: the first pass over the store, call_command for the
\* missing symbols, the second pass, the response.  present, called and
\* fetched are history: the symbols found by the first pass, those the vendor
\* was asked for, and those whose fetch reached its stock.save().
get_multiple_stocks(symbols, use_daily, api_key, answer) ==
    /\ view.served < MaxRequests
    /\ LET dt == IF use_daily THEN "daily" ELSE "weekly"
           Known(sym) == sym \in Symbols /\ stocks[dt][sym].exists
           Missing(sym) == ~Known(sym)
           missing_symbols == SelectSeq(symbols, Missing)
           start == [stocks |-> stocks[dt], table |-> prices[dt], log |-> apilog,
                     called |-> {}, fetched |-> {}, raised |-> FALSE]
           run == IF missing_symbols = <<>> \/ ~api_key THEN start
                  ELSE RunFetch(dt, missing_symbols, answer, start)
           found == {sym \in Range(symbols) : Known(sym)}
                        \cup {sym \in Range(missing_symbols) :
                                /\ ~run.raised
                                /\ sym \in Symbols /\ run.stocks[sym].exists}
           NotServed(sym) == sym \notin found
       IN /\ stocks' = [stocks EXCEPT ![dt] = run.stocks]
          /\ prices' = [prices EXCEPT ![dt] = run.table]
          /\ apilog' = run.log
          /\ view' = IF symbols = <<>>
                     THEN [served |-> view.served + 1, status |-> 400,
                           symbols |-> symbols, present |-> {}, data |-> {},
                           errors |-> <<>>, called |-> {}, fetched |-> {}]
                     ELSE [served |-> view.served + 1, status |-> 200,
                           symbols |-> symbols,
                           present |-> {sym \in Range(symbols) : Known(sym)},
                           data |-> found,
                           errors |-> SelectSeq(missing_symbols, NotServed),
                           called |-> run.called, fetched |-> run.fetched]
    /\ UNCHANGED notView

ViewNext ==
    \E symbols \in ViewRequests, use_daily \in BOOLEAN, api_key \in BOOLEAN,
       answer \in [Symbols -> ViewResponses] :
          get_multiple_stocks(symbols, use_daily, api_key, answer)

(***************************************************************************)
(*                          The bootstrap deploy.py                        *)
(***************************************************************************)

\* Bound of the bootstrap model: the Stock rows there can be.
MaxStocks == 2

\* seed_initial_stocks: `if not api_key: return`, then `if stock_count == 0`.
ShouldSeedAlways(api_key, stock_count) == TRUE
ShouldSeed(api_key, stock_count) == api_key /\ stock_count = 0

BootIdle ==
    boot = [pc |-> "off", api_key |-> FALSE, stock_count |-> 0, missing |-> 0,
            fetched |-> FALSE, logos |-> FALSE, logged |-> 0, exit_code |-> 0]

\* The script starts: ALPHA_VANTAGE_API_KEY is set or not, the Stock table
\* holds some rows, some of them without a logo.
BootInit ==
    \E api_key \in BOOLEAN, stock_count \in 0..MaxStocks :
       \E missing \in 0..stock_count :
          boot = [pc |-> "migrate", api_key |-> api_key, stock_count |-> stock_count,
                  missing |-> missing, fetched |-> FALSE, logos |-> FALSE,
                  logged |-> 0, exit_code |-> 0]

\* main up to collectstatic: call_command('migrate', ...) and
\* call_command('collectstatic', ...) are called outside any try of main.
Migrate(raises) ==
    /\ boot.pc = "migrate"
    /\ boot' = [boot EXCEPT !.pc = IF raises THEN "caught" ELSE "static"]
    /\ UNCHANGED notBoot

CollectStatic(raises) ==
    /\ boot.pc = "static"
    /\ boot' = [boot EXCEPT !.pc = IF raises THEN "caught" ELSE "seed"]
    /\ UNCHANGED notBoot

\* seed_initial_stocks: the fetch creates some Stock rows, without logos, and
\* returns or raises; the exception is printed.
seed_initial_stocks(raises, created) ==
    /\ boot.pc = "seed"
    /\ IF ShouldSeed(boot.api_key, boot.stock_count)
       THEN boot' = [boot EXCEPT !.pc = "logos",
                                 !.fetched = TRUE,
                                 !.stock_count = @ + created,
                                 !.missing = @ + created,
                                 !.logged = @ + (IF raises THEN 1 ELSE 0)]
       ELSE /\ ~raises /\ created = 0
            /\ boot' = [boot EXCEPT !.pc = "logos"]
    /\ UNCHANGED notBoot

\* seed_logos: fetch_logos runs when a Stock row has no logo; its exception
\* is printed.
seed_logos(raises) ==
    /\ boot.pc = "logos"
    /\ IF boot.missing > 0
       THEN boot' = [boot EXCEPT !.pc = "done",
                                 !.logos = TRUE,
                                 !.missing = IF raises THEN @ ELSE 0,
                                 !.logged = @ + (IF raises THEN 1 ELSE 0)]
       ELSE /\ ~raises
            /\ boot' = [boot EXCEPT !.pc = "done"]
    /\ UNCHANGED notBoot

\* The script ends: after 'DEPLOY.PY COMPLETED!', or after the `except` of
\* __main__ printed 'Continuing despite error...'.
BootEnd ==
    /\ boot.pc \in {"done", "caught"}
    /\ boot' = [boot EXCEPT !.pc = "exit", !.exit_code = 0]
    /\ UNCHANGED notBoot

BootNext ==
    \/ \E raises \in BOOLEAN : Migrate(raises)
    \/ \E raises \in BOOLEAN : CollectStatic(raises)
    \/ \E raises \in BOOLEAN, created \in 0..MaxStocks : seed_initial_stocks(raises, created)
    \/ \E raises \in BOOLEAN : seed_logos(raises)
    \/ BootEnd

\* Nothing of the later components runs.
CoreIdle == LimiterIdle /\ StoreIdle /\ PerfIdle /\ CmdIdle
ExtIdle == ApiIdle /\ IngestIdle /\ RouteIdle /\ BootIdle /\ ViewIdle

(***************************************************************************)
(*                            Specifications                               *)
(***************************************************************************)

\* The limiter alone: no fetch touches the stores.
InitLimiter == LimiterInit /\ StoreIdle /\ PerfIdle /\ CmdIdle /\ ExtIdle
SpecLimiter == InitLimiter /\ [][LimiterNext]_vars

\* The fetches alone: the limiter is not used.
SpecLimiterLive == InitLimiter /\ [][LimiterLiveNext]_vars /\ LimiterFairness
InitStore == StoreInit /\ LimiterIdle /\ PerfIdle /\ CmdIdle /\ ExtIdle
SpecStore == InitStore /\ [][StoreNext]_vars

\* The calculator, with the fetchers as its environment.
InitPerf == PerfInit /\ LimiterIdle /\ CmdIdle /\ ExtIdle
SpecPerf == InitPerf /\ [][PerfNext]_vars

\* One run of an ingestion command.
InitCmd == CmdInit /\ LimiterIdle /\ StoreIdle /\ PerfIdle /\ ExtIdle
SpecCmd == InitCmd /\ [][CmdNext]_vars

\* The /seed/ endpoint, and the social_login endpoint.
InitApi == CoreIdle /\ ExtIdle
SpecSeed == InitApi /\ [][SeedNext]_vars
SpecLogin == InitApi /\ [][LoginNext]_vars

\* A price fetcher storing the items of one vendor response.
InitIngest == IngestInit /\ CoreIdle /\ ApiIdle /\ RouteIdle /\ BootIdle /\ ViewIdle
SpecIngest == InitIngest /\ [][IngestNext]_vars

\* The router answering Django's queries.
SpecRoute == InitApi /\ [][RouteNext]_vars

\* One run of deploy.py.
InitBoot == BootInit /\ CoreIdle /\ ApiIdle /\ IngestIdle /\ RouteIdle /\ ViewIdle
SpecBoot == InitBoot /\ [][BootNext]_vars
SpecView == InitApi /\ [][ViewNext]_vars

(***************************************************************************)
(*                               Claims                                    *)
(***************************************************************************)

\* The number of recorded admission times in the closed window [t, t + w].
InWindow(t, w) ==
    Cardinality({i \in 1..Len(admitted) : admitted[i] >= t /\ admitted[i] <= t + w})

\* C1: on one shared limiter, at most qps recorded admission times fall in any
\* rolling 1-second window and at most qpm in any rolling 60-second window,
\* whatever the interleaving of the concurrent acquire() calls.
C1_RateBound ==
    \A t \in 0..MaxTime :
        /\ InWindow(t, SecondWindow) <= qps
        /\ InWindow(t, MinuteWindow) <= qpm

\* C1 witness: every caller but one was admitted, qpm of them inside one minute
\* and then another one after the minute window moved on, while callers had
\* to sleep in between.
C1_Witness ==
    /\ Len(admitted) > qpm
    /\ InWindow(0, MinuteWindow) = qpm
    /\ \E i \in 1..Len(admitted) : admitted[i] > MinuteWindow


\* The positions of a fetch between its vendor call and its end.
Replacing == {"delete", "del_wait", "insert", "save", "upsert", "rsave"}

\* C2: while a fetch of one symbol replaces that symbol's price rows and no
\* other writer touches them, every change a reader can see takes the rows from
\* what they were straight to the complete new series: the fetch never shows an
\* empty set in between and never a partial mix.
C2_AtomicReplacement ==
    [][\A p \in Procs, dt \in DataTypes, sym \in Symbols :
         (/\ proc[p].pc \in Replacing /\ proc[p].dt = dt /\ proc[p].sym = sym
          /\ proc[p].solo /\ proc'[p].solo)
            => Content(dt, sym)' \in {Content(dt, sym), BarsOf(proc[p].data)}]_vars

\* C8: a weekly fetch with force unset of a symbol whose instrument exists and
\* was updated less than 60 minutes ago goes to its skip, which makes no vendor
\* call and changes no price row; with force set the fetch makes the vendor call
\* whatever last_updated is.
C8_FreshnessSkip ==
    [][\A p \in Procs :
         /\ (runType = "weekly" /\ proc[p].pc = "idle" /\ proc'[p].pc # "idle")
               => LET st == stocks["weekly"][proc'[p].sym]
                  IN /\ proc'[p].force => proc'[p].pc = "called"
                     /\ (~proc'[p].force /\ st.exists
                           /\ wall - st.last_updated < 60)
                          => proc'[p].pc = "skip" /\ prices' = prices
         /\ (proc[p].pc = "skip" /\ proc'[p].pc # "skip")
               => proc'[p].pc = "idle" /\ prices' = prices]_vars

\* C8 witness: one weekly fetch is at its skip, unforced, 30 minutes after the
\* symbol's rows were stored, while a forced fetch of the same fresh symbol has
\* its vendor call under way.
C8_Witness ==
    \E p, q \in Procs :
        /\ runType = "weekly"
        /\ proc[p].pc = "skip" /\ ~proc[p].force
        /\ RowsOf("weekly", proc[p].sym) # {}
        /\ wall - stocks["weekly"][proc[p].sym].last_updated = 30
        /\ proc[q].pc = "called" /\ proc[q].force /\ proc[q].sym = proc[p].sym

\* Each (instrument, date) has at most one row in the table.
OneRowPerKey(table) ==
    /\ \A r \in BagToSet(table) : CopiesIn(r, table) = 1
    /\ \A a, b \in BagToSet(table) : Key(a) = Key(b) => a = b

\* C9: whatever weekly or daily fetches have run and however they interleaved,
\* the store holds at most one row per (instrument, date); and a fetch whose
\* vendor data equals the rows already stored, run with no other writer on the
\* symbol, ends with exactly those rows.
C9_OneBarPerDate ==
    /\ [](runType \in {"weekly", "daily"} => OneRowPerKey(prices[runType]))
    /\ [][\A p \in Procs, dt \in {"weekly", "daily"}, sym \in Symbols :
            (/\ proc[p].pc \in Replacing /\ proc[p].dt = dt /\ proc[p].sym = sym
             /\ proc[p].repeat /\ proc[p].solo
             /\ proc'[p].pc = "idle")
               => /\ Content(dt, sym)' = BarsOf(proc[p].data)
                  /\ OneRowPerKey(prices'[dt])]_vars

\* C9 witness: a second fetch with identical vendor data has written its rows
\* and the store holds exactly the rows of the first fetch.
C9_Witness ==
    \E p \in Procs :
        /\ runType \in {"weekly", "daily"}
        /\ proc[p].pc \in {"save", "rsave"}
        /\ proc[p].repeat /\ proc[p].solo
        /\ Len(proc[p].data) = MaxDate
        /\ Content(proc[p].dt, proc[p].sym) = BarsOf(proc[p].data)
        /\ OneRowPerKey(prices[runType])


\* The positions of compute_all between its computation and its return.
PerfReplacing == {"delete", "del_wait", "insert", "commit"}

\* C3: while one compute_all replaces the StockPerformance table and no other
\* execution writes it, every change a reader can see takes the table from the
\* previous row set straight to the complete newly computed row set.
C3_NeverPartial ==
    [][\A c \in Calcs :
         (calc[c].pc \in PerfReplacing /\ calc[c].solo /\ calc'[c].solo)
            => BagToSet(perf') \in {BagToSet(perf), calc[c].todo}]_vars

\* A (symbol, period) pair with sufficient price history: the source store has
\* the instrument, a last bar and an earlier bar to start from (the bar before
\* the last for 1D, else the first bar of the period), with a non-zero close.
HasHistory(sym, p) ==
    LET source == TIME_PERIODS[p].source
        start == _get_start_date(Today, TIME_PERIODS[p])
        rows == RowsOf(source, sym)
    IN /\ stocks[source][sym].exists
       /\ \E a, b \in rows :
            /\ a.date < b.date /\ a.val # 0
            /\ \A o \in rows : o.date <= b.date
            /\ IF p = "1D"
               THEN \A o \in rows \ {b} : o.date <= a.date
               ELSE a.date >= start /\ \A o \in rows : o.date >= start => a.date <= o.date

\* C4: compute_all computes one row for each (symbol, period) of the registry
\* with sufficient history and no other row, and when it returns the table
\* holds exactly the rows it computed, one per (symbol, period).
C4_ExactRows ==
    [][\A c \in Calcs :
         /\ (calc[c].pc = "idle" /\ calc'[c].pc = "delete")
               => /\ PairKeys(calc'[c].todo)
                        = {k \in fortune_500_symbols \X DOMAIN TIME_PERIODS :
                                HasHistory(k[1], k[2])}
                  /\ \A a, b \in calc'[c].todo : PairKey(a) = PairKey(b) => a = b
         /\ (calc[c].pc = "commit" /\ calc'[c].pc = "idle")
               => /\ BagToSet(perf') = calc[c].todo
                  /\ \A r \in BagToSet(perf') : CopiesIn(r, perf') = 1]_vars


\* The tasks of the pass under way that failed with a retriable error.
RetriableFailures ==
    {t \in DOMAIN results : ~results[t].ok /\ is_retriable_error(results[t].error)}

\* C5: after the main pass of fetch_stocks_fast at most max_retries retry
\* rounds run; a round starts only when the preceding pass is over, and it
\* re-attempts exactly the (data_type, symbol) pairs that failed with a
\* retriable error in that pass, each once, and no other task; no round starts
\* once a pass leaves no retriable failure, and the command goes to its summary
\* only when no retriable failure is left or the rounds are used up.
C5_RetryRounds ==
    /\ [](retry_round <= args.max_retries)
    /\ [][/\ retry_round' # retry_round =>
               /\ retry_round' = retry_round + 1
               /\ retry_round < args.max_retries
               /\ running = {} /\ queue = <<>>
               /\ DOMAIN results = Range(passTasks)
               /\ RetriableFailures # {}
               /\ Range(passTasks') = RetriableFailures
               /\ Len(passTasks') = Cardinality(RetriableFailures)
               /\ queue' = passTasks'
          /\ (attempted' \ attempted) \subseteq Range(passTasks)
          /\ (args.cmd = "fast" /\ phase = "pass" /\ phase' = "summary") =>
                (RetriableFailures = {} \/ retry_round = args.max_retries)]_vars

\* C5 witness: every allowed round has run, the last one re-attempted only a
\* part of the main pass and still left a retriable failure.
C5_Witness ==
    /\ args.cmd = "fast" /\ phase = "summary"
    /\ args.max_retries = MaxRetries /\ retry_round = MaxRetries
    /\ Len(passTasks) < Len(Tasks(args.symbols, args.types))
    /\ failed_tasks # <<>>

\* The literals of the retry classification.
ClaimLiterals ==
    {"rate limit", "Rate limit", "Information", "timed out", "timeout",
     "ConnectionError", "ConnectionPool"}

ClaimRetriable(error) ==
    /\ ~error.none
    /\ error.text # ""
    /\ \E lit \in ClaimLiterals : Contains(error.text, lit)

\* Every error a task of the fast fetcher can fail with, and the absent and
\* the empty error.
ErrorValues ==
    {None, Err(""), Err("API rate limit hit"), Err("Invalid symbol: ZZZZ"), DataError}
      \cup {FastError(dt, answer) :
              dt \in {"weekly", "daily", "intraday", "overview"},
              answer \in VendorAnswers}

\* Task t of the pass under way is in failed_tasks with the error it returned.
Queued(t) ==
    \E i \in 1..Len(failed_tasks) : failed_tasks[i] = <<t[1], t[2], results[t].error>>

\* C6: is_retriable_error is true exactly for an error text containing one of
\* the seven literals, so it is true for 'API rate limit hit', false for
\* 'Invalid symbol: ZZZZ' and false for an absent or empty error; and a
\* finished task of fetch_stocks_fast is queued for a retry round if and only
\* if it failed with a retriable error.
C6_RetriableClassification ==
    /\ \A e \in ErrorValues : is_retriable_error(e) <=> ClaimRetriable(e)
    /\ is_retriable_error(Err("API rate limit hit"))
    /\ ~is_retriable_error(Err("Invalid symbol: ZZZZ"))
    /\ ~is_retriable_error(None)
    /\ ~is_retriable_error(Err(""))
    /\ args.cmd = "fast" =>
          \A t \in DOMAIN results :
              Queued(t) <=> (~results[t].ok /\ ClaimRetriable(results[t].error))

\* C6 witness: in one pass a task failed with 'API rate limit hit' and is
\* queued, another failed with 'Invalid symbol: ZZZZ' and is not.
C6_Witness ==
    /\ args.cmd = "fast"
    /\ \E t, u \in DOMAIN results :
          /\ results[t].error = Err("API rate limit hit") /\ Queued(t)
          /\ ~results[u].ok /\ results[u].error = Err("Invalid symbol: ZZZZ")
          /\ ~Queued(u)

\* The finished tasks of the pass whose vendor response carried 'Note' or
\* 'Information'.
Noticed == {t \in DOMAIN results : results[t].answer \in {"note", "information"}}

\* C7: in fetch_stocks_fast, for each of the four data types, a task whose
\* vendor response carries 'Note' or 'Information' fails with an error that
\* is classified retriable and is queued, and when the pass is over and a
\* round remains the next round re-attempts it.
C7_NoticesRetried ==
    /\ [](args.cmd = "fast" =>
            \A t \in Noticed :
                /\ ~results[t].ok
                /\ is_retriable_error(results[t].error)
                /\ Queued(t))
    /\ [][(/\ args.cmd = "fast" /\ phase = "pass"
           /\ queue = <<>> /\ running = {}
           /\ retry_round < args.max_retries
           /\ Noticed # {})
             => /\ retry_round' = retry_round + 1
                /\ Noticed \subseteq Range(passTasks')]_vars

\* C10: in every ingestion command the failure of one symbol or task is
\* contained: the run is never aborted, and at the summary every symbol or
\* task of the run has been attempted.
C10_FailuresContained ==
    /\ phase # "aborted"
    /\ phase = "summary" =>
          Range(Tasks(args.symbols, args.types)) \subseteq attempted


\* C11: a /seed/ request whose key is missing or differs from the secret is
\* answered 403 and starts no background fetch; a request with the correct
\* key starts the background fetch and is answered 200 with an estimate,
\* while that fetch has not completed.
C11_SeedKeyGate ==
    [][seed'.served = seed.served + 1 =>
          IF provided_key(seed'.req) # Param(secret_key)
          THEN /\ seed'.resp.status = 403
               /\ seed'.started = seed.started
          ELSE /\ seed'.resp = [status |-> 200, estimate |-> TRUE]
               /\ seed'.started = seed.started + 1
               /\ seed'.finished < seed'.started]_vars

\* The social_login request served by p ended in this step, with that status.
Ends(p, status) ==
    /\ login[p].pc # "idle" /\ login'[p].pc = "idle"
    /\ login'[p].resp.status = status

\* C12: after a social_login call with a valid token whose profile carries
\* email e, exactly one User with email e exists and exactly one
\* SocialAccount exists for that user and the provider; no email ever has a
\* second User and no (user, provider) a second SocialAccount.
C12_OneUserOneAccount ==
    /\ [](\A u1, u2 \in users : u1.email = u2.email => u1 = u2)
    /\ [](\A a1, a2 \in accounts :
             (a1.user = a2.user /\ a1.provider = a2.provider) => a1 = a2)
    /\ [][\A p \in Logins :
            Ends(p, 200) =>
               /\ Cardinality({u \in users' : u.email = login[p].info.email}) = 1
               /\ \A u \in users' :
                    u.email = login[p].info.email =>
                       Cardinality({a \in accounts' :
                                      a.user = u.username
                                      /\ a.provider = login[p].req.provider}) = 1]_vars

\* C13: social_login answers 400 when access_token is missing or provider is
\* not google or microsoft, 401 when the userinfo call fails, 400 when the
\* profile carries no email; in these cases no User or SocialAccount is
\* created or changed and no token pair is issued.
C13_LoginRejections ==
    /\ [](\A p \in Logins :
            (login[p].pc = "idle" /\ login[p].served > 0) =>
              LET r == login[p].req
                  i == login[p].info
                  asked == r.access_token # "" /\ r.provider \in {"google", "microsoft"}
              IN /\ ~asked => login[p].resp = [status |-> 400, tokens |-> FALSE]
                 /\ (asked /\ ~i.ok) => login[p].resp = [status |-> 401, tokens |-> FALSE]
                 /\ (asked /\ i.ok /\ i.email = "") =>
                        login[p].resp = [status |-> 400, tokens |-> FALSE])
    /\ [][\A p \in Logins :
            (login'[p].served = login[p].served + 1 /\ login'[p].pc = "idle") =>
               /\ login'[p].resp.status \in {400, 401}
               /\ ~login'[p].resp.tokens
               /\ users' = users /\ accounts' = accounts]_vars

\* C13 witness: a request was rejected with 401 while a User and its
\* SocialAccount, created by an earlier exchange, are still there.
C13_Witness ==
    /\ users # {} /\ accounts # {}
    /\ \E p \in Logins :
          /\ login[p].pc = "idle" /\ login[p].resp.status = 401
          /\ login[p].req.access_token # ""


\* C14: every vendor call attempt of an ingestion command appends exactly
\* one APICallLog row carrying the symbol and the outcome: the step that ends
\* a fetch which called the vendor adds that one row, no other step adds a
\* row, and no step updates or deletes a row.
C14_OneLogRowPerCall ==
    [][/\ \A r \in BagToSet(apilog) : CopiesIn(r, apilog') >= CopiesIn(r, apilog)
       /\ \A p \in Procs :
             (proc[p].pc \notin {"idle", "skip"} /\ proc'[p].pc = "idle") =>
                apilog' = apilog (+) SetToBag({LogRow(proc[p].sym,
                                                      proc[p].pc \in {"save", "rsave"})})
       /\ apilog' # apilog =>
             \E p \in Procs : proc[p].pc \notin {"idle", "skip"} /\ proc'[p].pc = "idle"]_vars

\* C15: an Instrument row is created only by the step that completes a
\* successful fetch of its symbol, so that a failed fetch of an unknown
\* symbol leaves no row; and no step deletes an Instrument row.
C15_InstrumentOnSuccess ==
    [][\A dt \in DataTypes, sym \in Symbols :
          /\ stocks[dt][sym].exists => stocks'[dt][sym].exists
          /\ (~stocks[dt][sym].exists /\ stocks'[dt][sym].exists) =>
                \E p \in Procs :
                   /\ proc[p].dt = dt /\ proc[p].sym = sym
                   /\ proc[p].pc \in {"save", "rsave"} /\ proc'[p].pc = "idle"]_vars


\* The rows compute_all has computed or stored.
PerfRows == BagToSet(perf) \cup UNION {calc[c].todo : c \in Calcs}

\* C18: the calculator produces no row whose start close is zero; a row has
\* price_change = end close - start close and percent_change =
\* price_change / start close * 100 rounded to 2 decimals (kept in
\* hundredths); start 100 and end 110 give price_change 10 and
\* percent_change 10.00.
C18_PerformanceRecord ==
    \A r \in PerfRows :
        /\ r.start_price # 0
        /\ r.price_change = r.end_price - r.start_price
        /\ LET err == r.percent_change * r.start_price - r.price_change * 10000
           IN 2 * err <= r.start_price /\ 2 * (0 - err) <= r.start_price
        /\ (r.start_price = 100 /\ r.end_price = 110) =>
              (r.price_change = 10 /\ r.percent_change = 1000)

\* C18 witness: the weekly history starts with a close of zero and gives no
\* row, the daily history 100, 110 gives the row of period '1D'.
C18_Witness ==
    /\ \E b \in BagToSet(prices["weekly"]) : b.sym = "AAPL" /\ b.val = 0
    /\ \E c \in Calcs :
          /\ \E r \in calc[c].todo :
                r.period = "1D" /\ r.start_price = 100 /\ r.percent_change = 1000
          /\ \A r \in calc[c].todo : r.data_source = "daily"


\* C16: for every bar stored by the weekly and the daily fetchers, when the
\* vendor's raw close is non-zero the stored open, high and low are the
\* vendor's times adjusted_close / raw_close and the stored close is the
\* adjusted close; when the raw close is zero they are the vendor's open,
\* high and low (a multiplier of exactly 1).
C16_AdjustedBars ==
    \A s \in ingest.stored :
        LET v == s.vendor
            r == s.row
        IN /\ r.close_price = v.adjusted
           /\ v.close # 0 =>
                 /\ r.open_price * v.close = v.open * v.adjusted
                 /\ r.high_price * v.close = v.high * v.adjusted
                 /\ r.low_price * v.close = v.low * v.adjusted
           /\ v.close = 0 =>
                 /\ r.open_price = v.open
                 /\ r.high_price = v.high
                 /\ r.low_price = v.low

\* C17: a run of the daily fetchers stores no bar of its response dated more
\* than 90 days before the run date.
C17_NinetyDays ==
    ingest.fetcher \in {"fetch_daily_stocks", "fast_daily"} =>
        \A s \in ingest.stored : Today - s.row.date <= 90

\* C19: StockRouter resolves a model to one store, the same for reads and
\* writes: 'daily' for the stocks-app daily models, 'intraday' for its
\* intraday models, 'adjusted' for every other stocks-app model, 'default'
\* for a model of any other app; allow_migrate(db, model) is true exactly
\* when db is that store.
C19_RouterResolution ==
    route.asked =>
        LET app == route.q.app_label
            model == route.q.model_name
            resolved ==
                IF app # "stocks" THEN "default"
                ELSE IF model \in {"dailystock", "dailystockprice"} THEN "daily"
                ELSE IF model \in {"intradaystock", "intradaystockprice"} THEN "intraday"
                ELSE "adjusted"
        IN /\ route.read = resolved
           /\ route.write = resolved
           /\ route.migrate <=> (route.q.db = resolved)

\* C19 witness: the router was asked whether the stocks-app model
\* dailystockprice may migrate on 'daily', and allowed it.
C19_Witness ==
    /\ route.asked /\ route.migrate
    /\ route.q = [db |-> "daily", app_label |-> "stocks", model_name |-> "dailystockprice"]

C21_AcquireBeforeCall ==
    [][(args.cmd = "fast" /\ hist.called' # hist.called) =>
          /\ hist.called' = hist.called + 1
          /\ hist.called' <= hist.acquired
          /\ \E t \in running : t \notin running']_vars

\* C21 witness: a retry round of fetch_stocks_fast has made a vendor call.
C21_Witness ==
    /\ args.cmd = "fast"
    /\ retry_round >= 1
    /\ completed.count >= 1
    /\ hist.called >= 2
    /\ \E t \in DOMAIN results : results[t].answer \notin {"fresh", "none"}


\* C25: in fetch_stocks_fast a retry round starts, failed_tasks is cleared and
\* the summary is written only when no task is queued or running and every
\* task of the pass has been counted; the tasks a worker executes are always
\* tasks of the pass under way, so two passes never run at once.
C25_PassesDoNotOverlap ==
    [][args.cmd = "fast" =>
          /\ running' \subseteq Range(passTasks')
          /\ (\/ retry_round' # retry_round
              \/ passTasks' # passTasks
              \/ (failed_tasks # <<>> /\ failed_tasks' = <<>>)
              \/ (phase = "pass" /\ phase' = "summary"))
             => /\ running = {} /\ queue = <<>>
                /\ completed.count = Len(passTasks)
                /\ DOMAIN results = Range(passTasks)]_vars

\* C25 witness: the summary follows a retry round of a run whose main pass had
\* two tasks.
C25_Witness ==
    /\ args.cmd = "fast"
    /\ phase = "summary"
    /\ retry_round >= 1
    /\ total_tasks = 2
    /\ completed.count = Len(passTasks)


\* C26: when fetch_stocks_fast writes its summary, the tasks it lists as
\* permanent failures (failed_tasks) are exactly the tasks whose most recent
\* attempt failed.
Permanent == {<<failed_tasks[i][1], failed_tasks[i][2]>> : i \in 1..Len(failed_tasks)}
C26_PermanentFailures ==
    (args.cmd = "fast" /\ phase = "summary") =>
        Permanent = {t \in DOMAIN hist.last : ~hist.last[t]}

\* C28: in fetch_stocks_fast the completed count of a pass is the number of
\* successes plus the number of failures recorded in that pass and never
\* exceeds the size of the pass; in the summary the reported success count is
\* the number of tasks whose last attempt succeeded, and reported success plus
\* reported failed is the number of tasks of the run.
C28_Counters ==
    args.cmd = "fast" =>
        /\ completed.count
             = Cardinality({t \in DOMAIN results : results[t].ok}) + completed.failed
        /\ completed.failed = Cardinality({t \in DOMAIN results : ~results[t].ok})
        /\ completed.count <= Len(passTasks)
        /\ phase = "summary" =>
              /\ completed.success
                   = Cardinality({t \in DOMAIN hist.last : hist.last[t]})
              /\ final_failed
                   = Cardinality({t \in DOMAIN hist.last : ~hist.last[t]})
              /\ completed.success + final_failed = total_tasks

\* C28 witness: the summary of a run in which one task failed for good in the
\* main pass and the other succeeded in a retry round.
C28_Witness ==
    /\ args.cmd = "fast"
    /\ phase = "summary"
    /\ retry_round >= 1
    /\ completed.success = 1
    /\ final_failed = 1
    /\ completed.failed = 0


\* C22: a fetch with force unset goes to its skip only for a symbol whose
\* instrument has been refreshed by a successful fetch less than the freshness
\* window ago; a symbol no fetch has ever succeeded for is never skipped, so
\* a second attempt after a failed first fetch makes the vendor call.
C22_SkipOnlyAfterSuccess ==
    [][\A p \in Procs :
          (proc[p].pc = "idle" /\ proc'[p].pc = "skip") =>
              LET st == stocks'[proc'[p].dt][proc'[p].sym]
              IN /\ st.refreshed
                 /\ wall - st.last_updated
                      < FreshnessWindow(proc'[p].path, proc'[p].dt)]_vars


\* C23: a weekly, daily or intraday task of the fast fetcher that fails after
\* its delete (a malformed date or value, a refused bulk insert), with no
\* other writer on the symbol, leaves the store with exactly the rows the
\* symbol had before; with the router and without it.
C23_FailureRestoresRows ==
    [][\A p \in Procs, dt \in DataTypes, sym \in Symbols :
          (/\ proc[p].path = "fast" /\ proc[p].dt = dt /\ proc[p].sym = sym
           /\ proc[p].pc = "insert" /\ proc'[p].pc = "idle" /\ proc[p].solo)
             => Content(dt, sym)' = proc[p].before]_vars


\* C24: when executions of compute_all overlap, none of them ends by an
\* exception, the table never holds two rows for one (symbol, period), and
\* when the last of them returns the table holds the rows it computed unless
\* the other execution wrote after it.
C24_OverlapCompletes ==
    /\ [](\A c \in Calcs : calc[c].pc # "raised")
    /\ [](/\ \A r \in BagToSet(perf) : CopiesIn(r, perf) = 1
          /\ \A a, b \in BagToSet(perf) : PairKey(a) = PairKey(b) => a = b)
    /\ [][\A c \in Calcs :
            (/\ calc[c].pc = "commit" /\ calc'[c].pc = "idle"
             /\ \A d \in Calcs : calc'[d].pc = "idle")
               => (BagToSet(perf') = calc[c].todo \/ ~calc[c].solo)]_vars


\* C27: with qpm >= 1 and qps >= 1, finitely many callers and time going on,
\* every call of RateLimiter.acquire returns: a caller that has not been
\* admitted is admitted later, so every pass of the run ends.
C27_AcquireReturns ==
    \A c \in Callers : (lpc[c] # "done") ~> (lpc[c] = "done")

\* C27 witness: every caller has returned from acquire, more callers than one
\* minute admits, the later ones after the first minute had gone by.
C27_Witness ==
    /\ qpm >= 1 /\ qps >= 1
    /\ \A c \in Callers : lpc[c] = "done"
    /\ Len(admitted) = NumCallers
    /\ NumCallers > qpm
    /\ clock = MaxTime


\* What Django makes of the router's answer: an answer of None is no opinion,
\* and the relation is then allowed exactly when both objects are in one store.
RelationAllowed ==
    IF route.relation = "None" THEN route.db1 = route.db2
    ELSE route.relation = "True"

\* C30: allow_relation permits a relation when both objects are in stores of
\* {default, adjusted, daily, intraday} and rejects a relation in which either
\* object is in a store outside that set.
C30_AllowRelation ==
    route.related =>
        IF route.db1 \in {"default", "adjusted", "daily", "intraday"}
           /\ route.db2 \in {"default", "adjusted", "daily", "intraday"}
        THEN route.relation = "True" /\ RelationAllowed
        ELSE ~RelationAllowed


\* C29: in the response of GET /stocks/ every requested symbol is in exactly
\* one of the data map and the errors list; a symbol that was absent from the
\* store and whose auto-fetch failed is in errors and not in data; a symbol
\* that was in the store is served without a vendor call.
C29_DataOrError ==
    view.status = 200 =>
        /\ \A sym \in Range(view.symbols) :
              (sym \in view.data) # (sym \in Range(view.errors))
        /\ \A sym \in Range(view.symbols) \ (view.present \cup view.fetched) :
              sym \in Range(view.errors) /\ sym \notin view.data
        /\ \A sym \in view.present : sym \in view.data /\ sym \notin view.called

=============================================================================
